---- MODULE Spec2Model ----
(***************************************************************************)
(* LifeThing wallpaper (src/src/App.tsx): Conway's Game of Life with stuck *)
(* detection, Fibonacci revival and a cross-fade scheduler.                *)
(*                                                                         *)
(* React state (useState) is read by a callback as it was at the render    *)
(* that created the callback; the setters take effect after the callback.  *)
(* An action therefore reads unprimed state variables and the last setter  *)
(* call for a variable gives its primed value.  Refs (useRef) are written  *)
(* at once.  Grids are sequences of rows, indexed from 1 (the code: 0).    *)
(***************************************************************************)
EXTENDS Integers, Sequences, FiniteSets, TLC

VARIABLES
    settings,            \* useState<GameSettings>                (line 78)
    grid,                \* useState<GridState>                   (line 79)
    coloredGrid,         \* useState<ColoredGridState>            (line 80)
    targetGrid,          \* useState<GridState>                   (line 81)
    targetColoredGrid,   \* useState<ColoredGridState>            (line 82)
    isFading,            \* useState<boolean>                     (line 83)
    lastUpdateRef,       \* useRef<number>(0)                     (line 87)
    stateHistoryRef,     \* useRef<string[]>([])                  (line 88)
    stuckCounterRef,     \* useRef<number>(0)                     (line 89)
    fadeStartTimeRef,    \* useRef<number>(0)                     (line 90)
    fibonacciIndexRef,   \* useRef<number>(0)                     (line 91)
    wallpaperPaused,     \* window.wallpaperPaused                (line 48)
    innerWidth,          \* window.innerWidth
    innerHeight,         \* window.innerHeight
    clock,               \* the timestamp of the latest animation frame
    obs,                 \* what the latest call did: its branch and locals
    animation            \* animationRef (line 86) and the browser's list of frame callbacks

vars == <<settings, grid, coloredGrid, targetGrid, targetColoredGrid, isFading,
          lastUpdateRef, stateHistoryRef, stuckCounterRef, fadeStartTimeRef,
          fibonacciIndexRef, wallpaperPaused, innerWidth, innerHeight, clock, obs,
          animation>>

(***************************************************************************)
(* Bounds of the model.                                                    *)
(***************************************************************************)
\* animation-frame timestamps run from 1 to MaxTime
MaxTime == 6
\* two consecutive frames are 1..MaxStep time units apart
MaxStep == 1
\* max_revival_attempts is 0, 1 or MaxRevival
MaxRevival == 5
\* the grids given to nextGeneration alone have 1..MaxDim rows and columns
MaxDim == 3
\* isSimulationStuck alone is called until MaxRecorded fingerprints were recorded
MaxRecorded == 13
\* a grid is stepped on its own MaxRun times
MaxRun == 3
\* the grids stepped repeatedly have at most MaxCells cells
MaxCells == 9
\* the pairs of grids rendered on their own have at most MaxRenderCells cells each
MaxRenderCells == 4
\* averageColorsWeighted alone is given up to MaxColors colours and ages, the
\* ages in 1..MaxAgeDrawn
MaxColors == 3
MaxAgeDrawn == 3
\* fibonacci alone is called with 0..MaxFib
MaxFib == 20
\* the grids holding a lone blinker have BlinkerDim or BlinkerDim + 1 rows and columns
BlinkerDim == 5

Min(a, b) == IF a < b THEN a ELSE b
Max(a, b) == IF a > b THEN a ELSE b

(***************************************************************************)
(* Grids.                                                                  *)
(***************************************************************************)
Height(g) == Len(g)
Width(g) == Len(g[1])

\* every boolean grid of the given size
AllGrids(width, height) == [1..height -> [1..width -> BOOLEAN]]

LiveCells(g) == {p \in (1..Height(g)) \X (1..Width(g)) : g[p[1]][p[2]]}

\* grid.some(row => row.some(cell => cell))
hasLiveCells(g) == \E x \in 1..Len(g) : \E y \in 1..Len(g[x]) : g[x][y]

\* const fibonacci = (n) => ...
RECURSIVE fibonacciLoop(_, _, _, _)
fibonacciLoop(a, b, i, n) ==
    IF i <= n THEN fibonacciLoop(b, a + b, i + 1, n) ELSE b

\* the loop returning a, the value before b
fibonacci_lag(n) == IF n <= 1 THEN 1 ELSE fibonacciLoop(1, 1, 2, n - 1)

\* the sequence started from 0, 1
fibonacci_fromZero(n) == IF n <= 0 THEN 0 ELSE IF n = 1 THEN 1 ELSE fibonacciLoop(0, 1, 2, n)

fibonacci(n) ==
    IF n <= 0 THEN 1
    ELSE IF n = 1 THEN 1
    ELSE fibonacciLoop(1, 1, 2, n)

\* the (i, j) pairs of countNeighbors' two loops, in loop order, without (0, 0)
NeighborOffsets ==
    << <<-1, -1>>, <<-1, 0>>, <<-1, 1>>,
       << 0, -1>>,            << 0, 1>>,
       << 1, -1>>, << 1, 0>>, << 1, 1>> >>

\* the loop body leaving out every position past an edge, wrapping or not
neighborAt_noWrap(g, x, y, off, wrapping) ==
    LET newX == x + off[1]
        newY == y + off[2]
    IN  IF newX < 1 \/ newX > Height(g) \/ newY < 1 \/ newY > Width(g)
        THEN 0
        ELSE IF g[newX][newY] THEN 1 ELSE 0

\* one pass of the loop body of countNeighbors: 1 if the offset counts
neighborAt(g, x, y, off, wrapping) ==
    LET height == Height(g)
        width  == Width(g)
        \* 0-based, as the code computes them
        rawX == (x - 1) + off[1]
        rawY == (y - 1) + off[2]
        newX == IF wrapping THEN (rawX + height) % height ELSE rawX
        newY == IF wrapping THEN (rawY + width) % width ELSE rawY
    IN  IF ~wrapping /\ (newX < 0 \/ newX >= height \/ newY < 0 \/ newY >= width)
        THEN 0
        ELSE IF g[newX + 1][newY + 1] THEN 1 ELSE 0

RECURSIVE countNeighborsFrom(_, _, _, _, _)
countNeighborsFrom(g, x, y, k, wrapping) ==
    IF k > Len(NeighborOffsets) THEN 0
    ELSE neighborAt(g, x, y, NeighborOffsets[k], wrapping)
         + countNeighborsFrom(g, x, y, k + 1, wrapping)

countNeighbors(g, x, y, wrapping) == countNeighborsFrom(g, x, y, 1, wrapping)

\* the rule with survival on two neighbours only
nextCell_survive2(isAlive, neighbors) ==
    IF isAlive THEN neighbors = 2 ELSE neighbors = 3

\* a dead cell born without any live neighbour as well
nextCell_bornAlone(isAlive, neighbors) ==
    IF isAlive THEN neighbors = 2 \/ neighbors = 3 ELSE neighbors = 3 \/ neighbors = 0

\* the birth/survival test of nextGeneration for one cell
nextCell(isAlive, neighbors) ==
    IF isAlive /\ (neighbors = 2 \/ neighbors = 3) THEN TRUE
    ELSE IF ~isAlive /\ neighbors = 3 THEN TRUE
    ELSE FALSE

nextGeneration(currentGrid, wrapping) ==
    [x \in 1..Height(currentGrid) |->
        [y \in 1..Width(currentGrid) |->
            nextCell(currentGrid[x][y], countNeighbors(currentGrid, x, y, wrapping))]]


(***************************************************************************)
(* Colour mode: a cell is { alive, color?, age? }.                         *)
(***************************************************************************)
\* color: undefined and age: undefined
NoColor == [r |-> -1, g |-> -1, b |-> -1]
NoAge == -1

\* { alive: false }
DeadCell == [alive |-> FALSE, color |-> NoColor, age |-> NoAge]

\* age || 1
ageOrOne(age) == IF age = NoAge \/ age = 0 THEN 1 ELSE age

\* Math.round(num / den) for den > 0: halves go up
Round(num, den) == (2 * num + den) \div (2 * den)

\* the alive/dead pattern of a coloured grid, as a plain grid
AlivePattern(g) == [x \in 1..Len(g) |-> [y \in 1..Len(g[x]) |-> g[x][y].alive]]

\* grid.some(row => row.some(cell => cell.alive))
hasLiveCellsColored(g) == \E x \in 1..Len(g) : \E y \in 1..Len(g[x]) : g[x][y].alive

\* colors.reduce(...) with the weights: the three weighted sums and the total weight
RECURSIVE weightedSum(_, _, _)
weightedSum(colors, weights, k) ==
    IF k > Len(colors) THEN [r |-> 0, g |-> 0, b |-> 0, total |-> 0]
    ELSE LET rest == weightedSum(colors, weights, k + 1)
         IN  [r |-> colors[k].r * weights[k] + rest.r,
              g |-> colors[k].g * weights[k] + rest.g,
              b |-> colors[k].b * weights[k] + rest.b,
              total |-> weights[k] + rest.total]

averageColors(colors) ==
    IF Len(colors) = 0 THEN [r |-> 255, g |-> 255, b |-> 255]
    ELSE LET sum == weightedSum(colors, [k \in 1..Len(colors) |-> 1], 1)
         IN  [r |-> Round(sum.r, Len(colors)),
              g |-> Round(sum.g, Len(colors)),
              b |-> Round(sum.b, Len(colors))]

\* the weighted average with the quotients cut off instead of rounded
averageColorsWeighted_floor(colors, ages) ==
    IF Len(colors) = 0 THEN [r |-> 255, g |-> 255, b |-> 255]
    ELSE IF Len(colors) # Len(ages) THEN averageColors(colors)
    ELSE LET sum == weightedSum(colors,
                                [k \in 1..Len(ages) |-> ageOrOne(ages[k])],
                                1)
         IN  [r |-> sum.r \div sum.total,
              g |-> sum.g \div sum.total,
              b |-> sum.b \div sum.total]

averageColorsWeighted(colors, ages) ==
    IF Len(colors) = 0 THEN [r |-> 255, g |-> 255, b |-> 255]
    ELSE IF Len(colors) # Len(ages) THEN averageColors(colors)
    ELSE LET sum == weightedSum(colors,
                                [k \in 1..Len(ages) |-> ageOrOne(ages[k])],
                                1)
         IN  [r |-> Round(sum.r, sum.total),
              g |-> Round(sum.g, sum.total),
              b |-> Round(sum.b, sum.total)]

\* enhanceChannel: center + distance * saturationFactor as the fraction num / den,
\* clamped to 0..255 and rounded; saturation_factor is in percent
enhanceChannel(channel, color, age) ==
    LET maxAge == settings.max_saturation_age
        sum    == color.r + color.g + color.b
        den    == 3 * maxAge * 100
        num    == sum * maxAge * 100
                  + (3 * channel - sum)
                    * (maxAge * 100 + Min(age, maxAge) * settings.saturation_factor)
    IN  IF num < 0 THEN 0
        ELSE IF num > 255 * den THEN 255
        ELSE Round(num, den)

enhanceColorSaturation(color, age) ==
    [r |-> enhanceChannel(color.r, color, age),
     g |-> enhanceChannel(color.g, color, age),
     b |-> enhanceChannel(color.b, color, age)]

\* generateTweakedColor with its two draws: the channel and the extreme value
generateTweakedColor(baseColor, randomChannel, extremeValue) ==
    [baseColor EXCEPT ![randomChannel] = extremeValue]

\* generateRandomColor() is sampled: the cell at (x, y) draws one of two colours
generateRandomColor(x, y) ==
    IF (x + y) % 2 = 0 THEN [r |-> 200, g |-> 40, b |-> 40]
    ELSE [r |-> 40, g |-> 40, b |-> 200]

\* The draws of one call of nextGenerationColored are sampled: every newborn of the
\* call draws the same values.  Math.random() < random_color_chance (in percent)
\* is never true at 0 and always true at 100.
ColorDraws ==
    {[useRandomColor |-> u, randomChannel |-> "r", extremeValue |-> 255] :
        u \in {b \in BOOLEAN : (b => settings.random_color_chance > 0)
                               /\ (~b => settings.random_color_chance < 100)}}

\* one pass of the loop body of countNeighborsColored
RECURSIVE countNeighborsColoredFrom(_, _, _, _, _)
countNeighborsColoredFrom(g, x, y, k, wrapping) ==
    IF k > Len(NeighborOffsets) THEN [count |-> 0, colors |-> <<>>, ages |-> <<>>]
    ELSE LET height == Height(g)
             width  == Width(g)
             rawX == (x - 1) + NeighborOffsets[k][1]
             rawY == (y - 1) + NeighborOffsets[k][2]
             newX == IF wrapping THEN (rawX + height) % height ELSE rawX
             newY == IF wrapping THEN (rawY + width) % width ELSE rawY
             rest == countNeighborsColoredFrom(g, x, y, k + 1, wrapping)
         IN  IF ~wrapping /\ (newX < 0 \/ newX >= height \/ newY < 0 \/ newY >= width)
             THEN rest
             ELSE LET cell == g[newX + 1][newY + 1]
                  IN  IF cell.alive /\ cell.color # NoColor
                      THEN [count |-> rest.count + 1,
                            colors |-> <<cell.color>> \o rest.colors,
                            ages |-> <<ageOrOne(cell.age)>> \o rest.ages]
                      ELSE rest

countNeighborsColored(g, x, y, wrapping) == countNeighborsColoredFrom(g, x, y, 1, wrapping)

\* the loop body with a dead cell born already with 2 live neighbours
nextCellColored_bornOnTwo(currentGrid, x, y, wrapping, draw) ==
    LET n == countNeighborsColored(currentGrid, x, y, wrapping)
        isAlive == currentGrid[x][y].alive
        currentAge == ageOrOne(currentGrid[x][y].age)
        currentColor == currentGrid[x][y].color
        inheritedColor == averageColorsWeighted(n.colors, n.ages)
    IN  IF isAlive /\ (n.count = 2 \/ n.count = 3)
        THEN [alive |-> TRUE,
              color |-> IF currentColor # NoColor
                        THEN enhanceColorSaturation(currentColor, currentAge)
                        ELSE currentColor,
              age |-> currentAge + 1]
        ELSE IF ~isAlive /\ (n.count = 2 \/ n.count = 3)
        THEN [alive |-> TRUE,
              color |-> IF ~draw.useRandomColor THEN inheritedColor
                        ELSE IF settings.random_color_pure THEN generateRandomColor(x, y)
                        ELSE generateTweakedColor(inheritedColor, draw.randomChannel,
                                                  draw.extremeValue),
              age |-> 1]
        ELSE DeadCell

\* the loop body of nextGenerationColored for one cell, given the draws
nextCellColored(currentGrid, x, y, wrapping, draw) ==
    LET n == countNeighborsColored(currentGrid, x, y, wrapping)
        isAlive == currentGrid[x][y].alive
        currentAge == ageOrOne(currentGrid[x][y].age)
        currentColor == currentGrid[x][y].color
        inheritedColor == averageColorsWeighted(n.colors, n.ages)
    IN  IF isAlive /\ (n.count = 2 \/ n.count = 3)
        THEN [alive |-> TRUE,
              color |-> IF currentColor # NoColor
                        THEN enhanceColorSaturation(currentColor, currentAge)
                        ELSE currentColor,
              age |-> currentAge + 1]
        ELSE IF ~isAlive /\ n.count = 3
        THEN [alive |-> TRUE,
              color |-> IF ~draw.useRandomColor THEN inheritedColor
                        ELSE IF settings.random_color_pure THEN generateRandomColor(x, y)
                        ELSE generateTweakedColor(inheritedColor, draw.randomChannel,
                                                  draw.extremeValue),
              age |-> 1]
        ELSE DeadCell

\* nextGenerationColored(currentGrid): every grid its draws can give
nextGenerationColored(currentGrid, wrapping) ==
    {[x \in 1..Height(currentGrid) |->
        [y \in 1..Width(currentGrid) |->
            nextCellColored(currentGrid, x, y, wrapping, draw)]] : draw \in ColorDraws}

(***************************************************************************)
(* Stuck detection.                                                        *)
(***************************************************************************)
\* the history keeps this many fingerprints (line 436)
HistoryCapacity == 10

\* row.map(cell => cell ? '1' : '0').join('')
rowToString(row) == [y \in 1..Len(row) |-> IF row[y] THEN "1" ELSE "0"]

\* grid.map(row => ...).join(''): the rows' characters, one after the other
RECURSIVE joinRows(_, _)
joinRows(g, k) ==
    IF k > Len(g) THEN <<>> ELSE rowToString(g[k]) \o joinRows(g, k + 1)

gridToString(g) == joinRows(g, 1)

\* grid.map(row => row.map(cell => cell.alive ? '1' : '0').join('')).join('')
coloredGridToString(g) == joinRows(AlivePattern(g), 1)

\* stateHistoryRef.current.includes(gridString)
includes(history, gridString) == \E i \in 1..Len(history) : history[i] = gridString

\* push without the shift
pushHistory_noShift(history, gridString) == Append(history, gridString)

\* the newest entry dropped at the capacity instead of the oldest
pushHistory_dropNewest(history, gridString) ==
    IF Len(history) >= HistoryCapacity THEN history ELSE Append(history, gridString)

\* push, then shift while longer than the capacity
pushHistory(history, gridString) ==
    LET pushed == Append(history, gridString)
    IN  IF Len(pushed) > HistoryCapacity THEN Tail(pushed) ELSE pushed

\* isSimulationStuck(grid): the value returned and the history it leaves
isSimulationStuck(g, history) ==
    LET gridString == IF settings.color_mode THEN coloredGridToString(g)
                      ELSE gridToString(g)
        live == IF settings.color_mode THEN hasLiveCellsColored(g) ELSE hasLiveCells(g)
    IN  IF ~live THEN [stuck |-> TRUE, history |-> history]
        ELSE IF includes(history, gridString) THEN [stuck |-> TRUE, history |-> history]
        ELSE [stuck |-> FALSE, history |-> pushHistory(history, gridString)]

(***************************************************************************)
(* Random draws.  Math.random() is an input: an operator that uses it      *)
(* yields the set of its possible results.                                 *)
(***************************************************************************)
\* newGrid[x][y] = !newGrid[x][y] for one drawn (x, y)
flipCell(g, x, y) == [g EXCEPT ![x][y] = ~@]

\* The two draws of one pass of the loop are sampled: x = y, a cell of the diagonal.
DrawnCells(g) == {<<x, x>> : x \in 1..Min(Height(g), Width(g))}

\* one pass of the loop of flipRandomCells, for every sampled (x, y)
flipOnce(g) == {flipCell(g, c[1], c[2]) : c \in DrawnCells(g)}

RECURSIVE flipRandomCellsFrom(_, _, _)
flipRandomCellsFrom(grids, i, count) ==
    IF i >= count THEN grids
    ELSE flipRandomCellsFrom(UNION {flipOnce(g) : g \in grids}, i + 1, count)

\* flipRandomCells(grid, count): every grid the count draws can leave
flipRandomCells(g, count) == flipRandomCellsFrom({g}, 0, count)

\* flipCellColored giving a cell flipped alive its colour but no age
flipCellColored_noAge(g, x, y) ==
    [g EXCEPT ![x][y] = [alive |-> ~@.alive,
                         color |-> IF ~@.alive THEN generateRandomColor(x, y) ELSE NoColor,
                         age |-> NoAge]]

\* newGrid[x][y] = { alive: !alive, color: ..., age: ... } for one drawn (x, y)
flipCellColored(g, x, y) ==
    [g EXCEPT ![x][y] = [alive |-> ~@.alive,
                         color |-> IF ~@.alive THEN generateRandomColor(x, y) ELSE NoColor,
                         age |-> IF ~@.alive THEN 1 ELSE NoAge]]

flipOnceColored(g) == {flipCellColored(g, c[1], c[2]) : c \in DrawnCells(g)}

RECURSIVE flipRandomCellsColoredFrom(_, _, _)
flipRandomCellsColoredFrom(grids, i, count) ==
    IF i >= count THEN grids
    ELSE flipRandomCellsColoredFrom(UNION {flipOnceColored(g) : g \in grids},
                                    i + 1, count)

\* flipRandomCellsColored(grid, count): every grid the count draws can leave
flipRandomCellsColored(g, count) == flipRandomCellsColoredFrom({g}, 0, count)

\* calculateGridDimensions()
calculateGridDimensions ==
    LET availableHeight == innerHeight - settings.bottom_margin
        width  == innerWidth \div (settings.cell_size + settings.cell_padding)
        height == availableHeight \div (settings.cell_size + settings.cell_padding)
    IN  [width |-> Max(1, width), height |-> Max(1, height)]

\* The population draws of one grid are sampled: the live cells are one of
\* these sets of (row, column), cut to the grid.
SeedShapes ==
    { {},
      {<<1, 1>>, <<1, 2>>, <<2, 1>>},
      {<<1, 1>>, <<1, 2>>, <<2, 1>>, <<2, 2>>},
      {<<2, 1>>, <<2, 2>>, <<2, 3>>} }

\* createRandomGrid(width, height): Math.random() < grid_population_percentage
\* per cell; never true at 0, always true at 1 (percent: 0 and 100)
createRandomGrid(width, height) ==
    IF settings.grid_population_percentage <= 0
    THEN {[x \in 1..height |-> [y \in 1..width |-> FALSE]]}
    ELSE IF settings.grid_population_percentage >= 100
    THEN {[x \in 1..height |-> [y \in 1..width |-> TRUE]]}
    ELSE {[x \in 1..height |-> [y \in 1..width |-> <<x, y>> \in s]] : s \in SeedShapes}

\* createRandomColoredGrid(width, height): a live cell gets a colour and age 1
createRandomColoredGrid(width, height) ==
    {[x \in 1..height |->
        [y \in 1..width |->
            IF g[x][y]
            THEN [alive |-> TRUE, color |-> generateRandomColor(x, y), age |-> 1]
            ELSE DeadCell]] : g \in createRandomGrid(width, height)}

(***************************************************************************)
(* The scheduler: gameLoop, plain mode.                                    *)
(***************************************************************************)
TotalCells(g) == Height(g) * Width(g)

\* const fadeTime = settings.simulation_speed * settings.fade_amount
fadeTime == settings.simulation_speed * settings.fade_amount

\* const stableTime = settings.stable_display_time
stableTime == settings.stable_display_time

\* const totalCycleTime = fadeTime + stableTime
totalCycleTime == fadeTime + stableTime

\* the timing test without !isFading
advanceDue_whileFading(timestamp) == timestamp - lastUpdateRef >= totalCycleTime

\* if (!isFading && timestamp - lastUpdateRef.current >= totalCycleTime)
advanceDue(timestamp) ==
    ~isFading /\ timestamp - lastUpdateRef >= totalCycleTime

\* the hard reset taken only when revival is off
hardResetOnStuck_unlessRevive ==
    settings.hard_reset_on_stuck /\ ~settings.try_revive_stuck_sim

\* if (settings.hard_reset_on_stuck)
hardResetOnStuck == settings.hard_reset_on_stuck

\* the extinction test left out
isEmpty_never(nextGrid) == FALSE

\* const isEmpty = !nextGrid.some(row => row.some(cell => cell))
isEmpty(nextGrid) == ~hasLiveCells(nextGrid)

\* const isEmpty = !nextGrid.some(row => row.some(cell => cell.alive))
isEmptyColored(nextGrid) == ~hasLiveCellsColored(nextGrid)

\* if (!settings.try_revive_stuck_sim)
reviveDisabled == ~settings.try_revive_stuck_sim

\* one attempt more than max_revival_attempts
overMaxAttempts_late(counter) == counter > settings.max_revival_attempts + 1

\* the revival attempts never counted as used up
overMaxAttempts_never(counter) == FALSE

\* if (stuckCounterRef.current > settings.max_revival_attempts), after the ++
overMaxAttempts(counter) == counter > settings.max_revival_attempts

\* the guard with >= for >
overOneThird_orEqual(cellsToFlip, totalCells) == cellsToFlip * 3 >= totalCells

\* if (cellsToFlip > totalCells / 3)
overOneThird(cellsToFlip, totalCells) == cellsToFlip * 3 > totalCells

\* the else branch of if (isSimulationStuck(nextGrid)): both counters to 0
notStuckCounters == [stuckCounter |-> 0, fibonacciIndex |-> 0]

\* Math.min(fadeElapsed / fadeTime, 1) as a fraction; 0/0 is NaN
\* the progress of a fade taking twice its time
fadeProgress_halved(fadeElapsed, time) ==
    IF time = 0
    THEN IF fadeElapsed > 0 THEN [num |-> 1, den |-> 1] ELSE [num |-> 0, den |-> 0]
    ELSE IF fadeElapsed >= 2 * time THEN [num |-> 1, den |-> 1]
    ELSE [num |-> fadeElapsed, den |-> 2 * time]

fadeProgress(fadeElapsed, time) ==
    IF time = 0
    THEN IF fadeElapsed > 0 THEN [num |-> 1, den |-> 1] ELSE [num |-> 0, den |-> 0]
    ELSE IF fadeElapsed >= time THEN [num |-> 1, den |-> 1]
    ELSE [num |-> fadeElapsed, den |-> time]

\* the commit test with > for >=
fadeDone_strict(progress) == progress.den > 0 /\ progress.num > progress.den

\* if (fadeProgress >= 1): false for NaN
fadeDone(progress) == progress.den > 0 /\ progress.num >= progress.den

\* no cell of the grid, plain or coloured, is alive
Extinct(g) ==
    \A x \in 1..Len(g) : \A y \in 1..Len(g[x]) :
        IF settings.color_mode THEN ~g[x][y].alive ELSE ~g[x][y]

\* the branches of an advance that reset; they return without requestAnimationFrame
ResetBranches == {"hardReset", "extinctReset", "maxReset", "guardReset"}

\* before the component is mounted: animationRef.current is undefined (ref 0), no
\* frame callback is waiting, no render is outstanding
AnimationNone ==
    [mounted |-> FALSE, unmounted |-> FALSE, ref |-> 0, callbacks |-> {},
     rerender |-> FALSE]

\* obs records the latest call (op, branch, the proposed grid, the verdict, the flips
\* asked for, the grid handed to setTargetGrid, the render) and three histories:
\* consecStuck, the stuck but not extinct classifications in a row; lastAdvance, the
\* timestamp of the latest advance; recorded, every fingerprint pushed so far.
\* rescheduled: the call itself called requestAnimationFrame(gameLoop).
ObsNone ==
    [op |-> "none", branch |-> "none", nextGrid |-> <<>>, stuck |-> FALSE,
     cellsToFlip |-> 0, accepted |-> <<>>, render |-> "none", consecStuck |-> 0,
     lastAdvance |-> -1, recorded |-> <<>>, rescheduled |-> FALSE,
     drawn |-> {}, progress |-> [num |-> 0, den |-> 0],
     colors |-> <<>>, ages |-> <<>>, color |-> [r |-> -1, g |-> -1, b |-> -1]]

\* a call that is no advance
ObsOf(op, branch, render) ==
    [ObsNone EXCEPT !.op = op, !.branch = branch, !.render = render,
                    !.consecStuck = obs.consecStuck, !.lastAdvance = obs.lastAdvance]

\* a call of gameLoop that did not get to an advance
Saw(branch, render) ==
    obs' = [ObsOf("gameLoop", branch, render) EXCEPT !.rescheduled = TRUE]

\* a call of gameLoop that advanced, at clock'
SawAdvance(branch, nextGrid, stuck, cellsToFlip, accepted, render) ==
    obs' = [op |-> "gameLoop", branch |-> branch, nextGrid |-> nextGrid,
            stuck |-> stuck, cellsToFlip |-> cellsToFlip, accepted |-> accepted,
            render |-> render,
            consecStuck |-> IF ~stuck THEN 0
                            ELSE IF Extinct(nextGrid) THEN obs.consecStuck
                            ELSE obs.consecStuck + 1,
            lastAdvance |-> clock',
            recorded |-> <<>>,
            rescheduled |-> branch \notin ResetBranches]

\* the reset block handing the new grid to setTargetGrid and starting a fade
resetGrid_viaTarget(timestamp) ==
    /\ stuckCounterRef' = 0
    /\ stateHistoryRef' = <<>>
    /\ fibonacciIndexRef' = 0
    /\ \E newGrid \in createRandomGrid(calculateGridDimensions.width,
                                        calculateGridDimensions.height) :
          targetGrid' = newGrid
    /\ grid' = grid
    /\ isFading' = (fadeTime > 0)
    /\ fadeStartTimeRef' = timestamp
    /\ lastUpdateRef' = timestamp
    /\ UNCHANGED <<coloredGrid, targetColoredGrid>>

\* the reset block of the plain branch; it returns before the fade and the render
resetGrid(timestamp) ==
    /\ stuckCounterRef' = 0
    /\ stateHistoryRef' = <<>>
    /\ fibonacciIndexRef' = 0
    /\ \E newGrid \in createRandomGrid(calculateGridDimensions.width,
                                        calculateGridDimensions.height) :
          grid' = newGrid
    /\ targetGrid' = <<>>
    /\ isFading' = FALSE
    /\ lastUpdateRef' = timestamp
    /\ UNCHANGED <<fadeStartTimeRef, coloredGrid, targetColoredGrid>>

\* the fade started without the new target handed to setTargetGrid
startFadeOrCommit_noTarget(timestamp, newTarget) ==
    /\ IF settings.fade_amount > 0 /\ fadeTime > 0
       THEN /\ isFading' = TRUE
            /\ fadeStartTimeRef' = timestamp
            /\ UNCHANGED <<targetGrid, grid>>
       ELSE /\ grid' = IF Len(targetGrid) > 0 THEN targetGrid
                       ELSE nextGeneration(grid, settings.edge_wrapping)
            /\ targetGrid' = <<>>
            /\ UNCHANGED <<isFading, fadeStartTimeRef>>
    /\ lastUpdateRef' = timestamp
    /\ UNCHANGED <<coloredGrid, targetColoredGrid>>

\* after the stuck decision: setTargetGrid(newTarget) was called; start the fade or
\* commit at once (targetGrid is still the one of this render), then lastUpdate
startFadeOrCommit(timestamp, newTarget) ==
    /\ IF settings.fade_amount > 0 /\ fadeTime > 0
       THEN /\ isFading' = TRUE
            /\ fadeStartTimeRef' = timestamp
            /\ targetGrid' = newTarget
            /\ grid' = grid
       ELSE /\ grid' = IF Len(targetGrid) > 0 THEN targetGrid
                       ELSE nextGeneration(grid, settings.edge_wrapping)
            /\ targetGrid' = <<>>
            /\ UNCHANGED <<isFading, fadeStartTimeRef>>
    /\ lastUpdateRef' = timestamp
    /\ UNCHANGED <<coloredGrid, targetColoredGrid>>

\* the plain branch of the advance block
advanceGrid(timestamp) ==
    \E nextGrid \in {nextGeneration(grid, settings.edge_wrapping)} :
    \E verdict \in {isSimulationStuck(nextGrid, stateHistoryRef)} :
        IF verdict.stuck
        THEN IF hardResetOnStuck
             THEN /\ resetGrid(timestamp)
                  /\ SawAdvance("hardReset", nextGrid, TRUE, 0, <<>>, "none")
             ELSE IF isEmpty(nextGrid)
             THEN /\ resetGrid(timestamp)
                  /\ SawAdvance("extinctReset", nextGrid, TRUE, 0, <<>>, "none")
             ELSE IF reviveDisabled
             THEN /\ startFadeOrCommit(timestamp, nextGrid)
                  /\ UNCHANGED <<stuckCounterRef, stateHistoryRef, fibonacciIndexRef>>
                  /\ SawAdvance("acceptStuck", nextGrid, TRUE, 0, nextGrid,
                                "current")
             ELSE IF overMaxAttempts(stuckCounterRef + 1)
             THEN /\ resetGrid(timestamp)
                  /\ SawAdvance("maxReset", nextGrid, TRUE, 0, <<>>, "none")
             ELSE \E cellsToFlip \in {fibonacci(fibonacciIndexRef)} :
                      IF overOneThird(cellsToFlip, TotalCells(grid))
                      THEN /\ resetGrid(timestamp)
                           /\ SawAdvance("guardReset", nextGrid, TRUE,
                                         cellsToFlip, <<>>, "none")
                      ELSE \E flippedGrid \in flipRandomCells(nextGrid, cellsToFlip) :
                             /\ stuckCounterRef' = stuckCounterRef + 1
                             /\ fibonacciIndexRef' = fibonacciIndexRef + 1
                             /\ UNCHANGED stateHistoryRef
                             /\ startFadeOrCommit(timestamp, flippedGrid)
                             /\ SawAdvance("flip", nextGrid, TRUE,
                                           cellsToFlip, flippedGrid, "current")
        ELSE /\ stuckCounterRef' = notStuckCounters.stuckCounter
             /\ fibonacciIndexRef' = notStuckCounters.fibonacciIndex
             /\ stateHistoryRef' = verdict.history
             /\ startFadeOrCommit(timestamp, nextGrid)
             /\ SawAdvance("accept", nextGrid, FALSE, 0, nextGrid, "current")

\* the reset block of the colour branch
resetColoredGrid(timestamp) ==
    /\ stuckCounterRef' = 0
    /\ stateHistoryRef' = <<>>
    /\ fibonacciIndexRef' = 0
    /\ \E newGrid \in createRandomColoredGrid(calculateGridDimensions.width,
                                               calculateGridDimensions.height) :
          coloredGrid' = newGrid
    /\ targetColoredGrid' = <<>>
    /\ isFading' = FALSE
    /\ lastUpdateRef' = timestamp
    /\ UNCHANGED <<fadeStartTimeRef, grid, targetGrid>>

\* the colour branch after the stuck decision: start the fade or commit at once
startFadeOrCommitColored(timestamp, newTarget) ==
    /\ IF settings.fade_amount > 0 /\ fadeTime > 0
       THEN /\ isFading' = TRUE
            /\ fadeStartTimeRef' = timestamp
            /\ targetColoredGrid' = newTarget
            /\ coloredGrid' = coloredGrid
       ELSE /\ \E committed \in (IF Len(targetColoredGrid) > 0 THEN {targetColoredGrid}
                                 ELSE nextGenerationColored(coloredGrid,
                                                            settings.edge_wrapping)) :
                  coloredGrid' = committed
            /\ targetColoredGrid' = <<>>
            /\ UNCHANGED <<isFading, fadeStartTimeRef>>
    /\ lastUpdateRef' = timestamp
    /\ UNCHANGED <<grid, targetGrid>>

\* the colour branch of the advance block
advanceColoredGrid(timestamp) ==
    \E nextGrid \in nextGenerationColored(coloredGrid, settings.edge_wrapping) :
    \E verdict \in {isSimulationStuck(nextGrid, stateHistoryRef)} :
        IF verdict.stuck
        THEN IF hardResetOnStuck
             THEN /\ resetColoredGrid(timestamp)
                  /\ SawAdvance("hardReset", nextGrid, TRUE, 0, <<>>, "none")
             ELSE IF isEmptyColored(nextGrid)
             THEN /\ resetColoredGrid(timestamp)
                  /\ SawAdvance("extinctReset", nextGrid, TRUE, 0, <<>>, "none")
             ELSE IF reviveDisabled
             THEN /\ startFadeOrCommitColored(timestamp, nextGrid)
                  /\ UNCHANGED <<stuckCounterRef, stateHistoryRef, fibonacciIndexRef>>
                  /\ SawAdvance("acceptStuck", nextGrid, TRUE, 0, nextGrid, "current")
             ELSE IF overMaxAttempts(stuckCounterRef + 1)
             THEN /\ resetColoredGrid(timestamp)
                  /\ SawAdvance("maxReset", nextGrid, TRUE, 0, <<>>, "none")
             ELSE \E cellsToFlip \in {fibonacci(fibonacciIndexRef)} :
                      IF overOneThird(cellsToFlip, TotalCells(coloredGrid))
                      THEN /\ resetColoredGrid(timestamp)
                           /\ SawAdvance("guardReset", nextGrid, TRUE, cellsToFlip,
                                         <<>>, "none")
                      ELSE \E flippedGrid \in flipRandomCellsColored(nextGrid,
                                                                     cellsToFlip) :
                             /\ stuckCounterRef' = stuckCounterRef + 1
                             /\ fibonacciIndexRef' = fibonacciIndexRef + 1
                             /\ UNCHANGED stateHistoryRef
                             /\ startFadeOrCommitColored(timestamp, flippedGrid)
                             /\ SawAdvance("flip", nextGrid, TRUE, cellsToFlip,
                                           flippedGrid, "current")
        ELSE /\ stuckCounterRef' = notStuckCounters.stuckCounter
             /\ fibonacciIndexRef' = notStuckCounters.fibonacciIndex
             /\ stateHistoryRef' = verdict.history
             /\ startFadeOrCommitColored(timestamp, nextGrid)
             /\ SawAdvance("accept", nextGrid, FALSE, 0, nextGrid, "current")

\* if (isFading) ... else ...: the render, and the commit when the fade is over
fadeOrRender(timestamp) ==
    IF isFading
    THEN \E progress \in {fadeProgress(timestamp - fadeStartTimeRef, fadeTime)} :
             IF fadeDone(progress)
             THEN /\ IF settings.color_mode
                     THEN /\ coloredGrid' = targetColoredGrid
                          /\ targetColoredGrid' = <<>>
                          /\ UNCHANGED <<grid, targetGrid>>
                     ELSE /\ grid' = targetGrid
                          /\ targetGrid' = <<>>
                          /\ UNCHANGED <<coloredGrid, targetColoredGrid>>
                  /\ isFading' = FALSE
                  /\ Saw("fadeCommit", "fade")
             ELSE /\ UNCHANGED <<grid, targetGrid, coloredGrid, targetColoredGrid,
                                 isFading>>
                  /\ Saw("fading", "fade")
    ELSE /\ UNCHANGED <<grid, targetGrid, isFading, coloredGrid, targetColoredGrid>>
         /\ Saw("idle", "current")

\* the pause signal not looked at
pauseSignal_ignored == FALSE

\* if (window.wallpaperPaused)
pauseSignal == wallpaperPaused

\* const gameLoop = (timestamp) => ...
gameLoop(timestamp) ==
    /\ clock' = timestamp
    /\ UNCHANGED <<settings, wallpaperPaused, innerWidth, innerHeight>>
    /\ IF pauseSignal
       THEN /\ Saw("paused", "none")
            /\ UNCHANGED <<grid, coloredGrid, targetGrid, targetColoredGrid, isFading,
                           lastUpdateRef, stateHistoryRef, stuckCounterRef,
                           fadeStartTimeRef, fibonacciIndexRef>>
       ELSE IF (IF settings.color_mode THEN Len(coloredGrid) = 0 ELSE Len(grid) = 0)
       THEN /\ Saw("noGrid", "none")
            /\ UNCHANGED <<grid, coloredGrid, targetGrid, targetColoredGrid, isFading,
                           lastUpdateRef, stateHistoryRef, stuckCounterRef,
                           fadeStartTimeRef, fibonacciIndexRef>>
       ELSE IF advanceDue(timestamp)
       THEN IF settings.color_mode
            THEN advanceColoredGrid(timestamp)
            ELSE advanceGrid(timestamp)
       ELSE /\ fadeOrRender(timestamp)
            /\ UNCHANGED <<lastUpdateRef, stateHistoryRef, stuckCounterRef,
                           fadeStartTimeRef, fibonacciIndexRef>>

\* the next animation frame: requestAnimationFrame calls gameLoop with its time
AnimationFrame ==
    \E timestamp \in (clock + 1)..Min(clock + MaxStep, MaxTime) : gameLoop(timestamp)

\* initializeSimulation(), run by the mount effect: the first grid of the mode
initializeSimulation ==
    /\ IF settings.color_mode THEN Len(coloredGrid) = 0 ELSE Len(grid) = 0
    /\ IF settings.color_mode
       THEN /\ \E initialGrid \in createRandomColoredGrid(calculateGridDimensions.width,
                                                          calculateGridDimensions.height) :
                  coloredGrid' = initialGrid
            /\ targetColoredGrid' = <<>>
            /\ UNCHANGED <<grid, targetGrid>>
       ELSE /\ \E initialGrid \in createRandomGrid(calculateGridDimensions.width,
                                                   calculateGridDimensions.height) :
                  grid' = initialGrid
            /\ targetGrid' = <<>>
            /\ UNCHANGED <<coloredGrid, targetColoredGrid>>
    /\ isFading' = FALSE
    /\ obs' = ObsOf("initializeSimulation", "none", "none")
    /\ UNCHANGED <<settings, lastUpdateRef, stateHistoryRef, stuckCounterRef,
                   fadeStartTimeRef, fibonacciIndexRef, wallpaperPaused, innerWidth,
                   innerHeight, clock>>

\* the host sets or clears window.wallpaperPaused
setWallpaperPaused ==
    /\ wallpaperPaused' = ~wallpaperPaused
    /\ UNCHANGED <<settings, grid, coloredGrid, targetGrid, targetColoredGrid, isFading,
                   lastUpdateRef, stateHistoryRef, stuckCounterRef, fadeStartTimeRef,
                   fibonacciIndexRef, innerWidth, innerHeight, clock, obs>>

\* the settings a run starts with (applyUserProperties before the first frame);
\* times are in units of one frame, fractions in percent
SettingsSpace ==
    {s \in [color_mode : BOOLEAN,
            edge_wrapping : BOOLEAN,
            hard_reset_on_stuck : BOOLEAN,
            try_revive_stuck_sim : BOOLEAN,
            max_revival_attempts : {0, 1, MaxRevival},
            grid_population_percentage : {30},
            simulation_speed : {2},
            fade_amount : {0, 1},
            stable_display_time : {0, 1},
            cell_size : {2},
            cell_padding : {0},
            cell_corner_radius : {8},
            bottom_margin : {0},
            random_color_chance : {5},
            random_color_pure : {FALSE},
            max_saturation_age : {15},
            saturation_factor : {30},
            neighbor_opacity_enabled : {TRUE},
            neighbor_opacity_increment : {15},
            foreground_color : {[r |-> 29, g |-> 185, b |-> 84]}] :
        s.fade_amount = 0 => s.stable_display_time = 0}

Viewports == {<<6, 6>>}

Init ==
    /\ animation = AnimationNone
    /\ settings \in SettingsSpace
    /\ grid = <<>>
    /\ coloredGrid = <<>>
    /\ targetGrid = <<>>
    /\ targetColoredGrid = <<>>
    /\ isFading = FALSE
    /\ lastUpdateRef = 0
    /\ stateHistoryRef = <<>>
    /\ stuckCounterRef = 0
    /\ fadeStartTimeRef = 0
    /\ fibonacciIndexRef = 0
    /\ wallpaperPaused = FALSE
    /\ \E v \in Viewports : innerWidth = v[1] /\ innerHeight = v[2]
    /\ clock = 0
    /\ obs = ObsNone

Next ==
    \/ AnimationFrame /\ UNCHANGED animation
    \/ initializeSimulation /\ UNCHANGED animation
    \/ setWallpaperPaused /\ UNCHANGED animation

Spec == Init /\ [][Next]_vars

\* ---- one call of nextGeneration on an arbitrary grid ----

\* one settings record of SettingsSpace, with color_mode off
PlainSettings ==
    [color_mode |-> FALSE, edge_wrapping |-> TRUE, hard_reset_on_stuck |-> FALSE,
     try_revive_stuck_sim |-> TRUE, max_revival_attempts |-> MaxRevival,
     grid_population_percentage |-> 30, simulation_speed |-> 2, fade_amount |-> 1,
     stable_display_time |-> 1, cell_size |-> 2, cell_padding |-> 0,
     cell_corner_radius |-> 8, bottom_margin |-> 0, random_color_chance |-> 5, random_color_pure |-> FALSE,
     max_saturation_age |-> 15, saturation_factor |-> 30,
     neighbor_opacity_enabled |-> TRUE, neighbor_opacity_increment |-> 15,
     foreground_color |-> [r |-> 29, g |-> 185, b |-> 84]]

\* everything but settings, grid and obs, as it is before the first frame
RestIdle ==
    /\ coloredGrid = <<>>
    /\ targetGrid = <<>>
    /\ targetColoredGrid = <<>>
    /\ isFading = FALSE
    /\ lastUpdateRef = 0
    /\ stateHistoryRef = <<>>
    /\ stuckCounterRef = 0
    /\ fadeStartTimeRef = 0
    /\ fibonacciIndexRef = 0
    /\ wallpaperPaused = FALSE
    /\ innerWidth = 6
    /\ innerHeight = 6
    /\ clock = 0

InitStep ==
    /\ animation = AnimationNone
    /\ \E wrapping \in BOOLEAN :
          settings = [PlainSettings EXCEPT !.edge_wrapping = wrapping]
    /\ \E width \in 1..MaxDim, height \in 1..MaxDim : grid \in AllGrids(width, height)
    /\ RestIdle
    /\ obs = ObsNone

\* const nextGrid = nextGeneration(grid)
callNextGeneration ==
    /\ obs.op = "none"
    /\ obs' = [ObsNone EXCEPT !.op = "nextGeneration",
                              !.nextGrid = nextGeneration(grid, settings.edge_wrapping)]
    /\ UNCHANGED <<settings, grid, coloredGrid, targetGrid, targetColoredGrid, isFading,
                   lastUpdateRef, stateHistoryRef, stuckCounterRef, fadeStartTimeRef,
                   fibonacciIndexRef, wallpaperPaused, innerWidth, innerHeight, clock>>

NextStep == callNextGeneration /\ UNCHANGED animation

SpecStep == InitStep /\ [][NextStep]_vars

\* the live cells among the eight neighbour positions of (x, y), one per offset,
\* positions past an edge wrapped around or left out
LiveAround(g, x, y, wrapping) ==
    {d \in ({-1, 0, 1} \X {-1, 0, 1}) \ {<<0, 0>>} :
        IF wrapping
        THEN g[((x - 1 + d[1]) % Height(g)) + 1][((y - 1 + d[2]) % Width(g)) + 1]
        ELSE /\ x + d[1] \in 1..Height(g)
             /\ y + d[2] \in 1..Width(g)
             /\ g[x + d[1]][y + d[2]]}

\* C1: nextGeneration returns a grid of the same dimensions in which a cell is alive
\* exactly when it was alive with 2 or 3 live neighbours or dead with exactly 3, the
\* neighbours being the eight surrounding positions, wrapped or cut at the edge as
\* edge_wrapping says.
C1_NextGenerationRule ==
    obs.op = "nextGeneration" =>
        /\ Height(obs.nextGrid) = Height(grid)
        /\ \A x \in 1..Height(grid) :
              /\ Len(obs.nextGrid[x]) = Width(grid)
              /\ \A y \in 1..Width(grid) :
                    LET n == Cardinality(LiveAround(grid, x, y, settings.edge_wrapping))
                    IN  obs.nextGrid[x][y] <=>
                            \/ grid[x][y] /\ n \in {2, 3}
                            \/ ~grid[x][y] /\ n = 3

\* a wrapped 3 x 3 step in which one cell is born and one survives
C1_Witness ==
    /\ obs.op = "nextGeneration"
    /\ settings.edge_wrapping
    /\ Height(grid) = 3 /\ Width(grid) = 3
    /\ \E x \in 1..Height(grid), y \in 1..Width(grid) :
          ~grid[x][y] /\ obs.nextGrid[x][y]
    /\ \E x \in 1..Height(grid), y \in 1..Width(grid) :
          grid[x][y] /\ obs.nextGrid[x][y]

\* ---- the stuck decision of the game loop ----

\* the grid of the mode, its fade target, and the grids createRandom* can return
CurrentGrid == IF settings.color_mode THEN coloredGrid ELSE grid

TargetGrid == IF settings.color_mode THEN targetColoredGrid ELSE targetGrid

FreshGrids ==
    IF settings.color_mode
    THEN createRandomColoredGrid(calculateGridDimensions.width,
                                 calculateGridDimensions.height)
    ELSE createRandomGrid(calculateGridDimensions.width,
                          calculateGridDimensions.height)

\* the state a full reset leaves: both counters 0, the history empty, a fresh
\* random grid installed, no fade target, no fade
FullResetState ==
    /\ stuckCounterRef = 0
    /\ fibonacciIndexRef = 0
    /\ stateHistoryRef = <<>>
    /\ CurrentGrid \in FreshGrids
    /\ TargetGrid = <<>>
    /\ ~isFading

\* the latest call was a tick that advanced: it proposed a next grid
Advanced == obs.op = "gameLoop" /\ obs.nextGrid # <<>>

\* C2: a tick that proposes a grid with no live cell ends in a full reset, whatever
\* hard_reset_on_stuck, try_revive_stuck_sim and max_revival_attempts are.
C2_ExtinctionResets ==
    (Advanced /\ Extinct(obs.nextGrid)) =>
        /\ FullResetState
        /\ obs.accepted = <<>>
        /\ lastUpdateRef = clock

\* an extinct proposal with both options off, where a stuck grid would be accepted
C2_Witness ==
    /\ Advanced
    /\ Extinct(obs.nextGrid)
    /\ ~settings.hard_reset_on_stuck
    /\ ~settings.try_revive_stuck_sim
    /\ obs.branch = "extinctReset"

RECURSIVE Fib(_)
Fib(n) == IF n <= 1 THEN 1 ELSE Fib(n - 1) + Fib(n - 2)

\* the latest call was a tick whose proposal was living and stuck, with revival on
\* and the hard reset off
RevivalCase ==
    /\ Advanced
    /\ obs.stuck
    /\ ~Extinct(obs.nextGrid)
    /\ settings.try_revive_stuck_sim
    /\ ~settings.hard_reset_on_stuck

\* C4: with revival on and the hard reset off, the k-th stuck classification in a
\* row of a living grid, when it is over neither max_revival_attempts nor the
\* one-third guard, asks for fibonacci(k-1) flips (1, 1, 2, 3, ...) and leaves
\* fibonacciIndex one higher, at k; a not-stuck generation starts the row again.
C4_FibonacciFlips ==
    obs.branch = "flip" =>
        /\ RevivalCase
        /\ obs.consecStuck >= 1
        /\ obs.cellsToFlip = Fib(obs.consecStuck - 1)
        /\ fibonacciIndexRef = obs.consecStuck

\* the fourth stuck classification in a row: three flips
C4_Witness ==
    /\ obs.branch = "flip"
    /\ obs.consecStuck = 4
    /\ obs.cellsToFlip = 3

\* C5: with revival on and the hard reset off, a living stuck proposal met with
\* stuckCounter = max_revival_attempts ends in a full reset and flips nothing,
\* whatever fibonacciIndex is.
C5_MaxAttemptsReset ==
    [][(/\ clock' # clock
        /\ RevivalCase'
        /\ stuckCounterRef = settings.max_revival_attempts)
       => (/\ FullResetState'
           /\ obs'.accepted = <<>>
           /\ obs'.branch # "flip")]_vars

\* the reset after one revival attempt with max_revival_attempts = 1
C5_Witness ==
    /\ RevivalCase
    /\ settings.max_revival_attempts = 1
    /\ obs.consecStuck = 2
    /\ obs.branch = "maxReset"

\* C6: with revival on and the hard reset off, a living stuck proposal that is not
\* over max_revival_attempts ends in a full reset when fibonacci(fibonacciIndex) is
\* more than a third of the cells; otherwise that many flips are asked for, both
\* counters go up by one and nothing is reset.
C6_OneThirdGuard ==
    [][(/\ clock' # clock
        /\ RevivalCase'
        /\ stuckCounterRef < settings.max_revival_attempts)
       => IF Fib(fibonacciIndexRef) * 3 > Height(CurrentGrid) * Width(CurrentGrid)
          THEN /\ FullResetState'
               /\ obs'.accepted = <<>>
          ELSE /\ obs'.branch = "flip"
               /\ obs'.cellsToFlip = Fib(fibonacciIndexRef)
               /\ stuckCounterRef' = stuckCounterRef + 1
               /\ fibonacciIndexRef' = fibonacciIndexRef + 1
               /\ stateHistoryRef' = stateHistoryRef]_vars

\* the fifth stuck classification in a row on 9 cells: fibonacci(4) = 5 > 3
C6_Witness ==
    /\ RevivalCase
    /\ obs.branch = "guardReset"
    /\ obs.cellsToFlip = 5
    /\ FullResetState

\* what a tick that accepts its proposal unmodified leaves: the proposal is the
\* fade target, or with no fade it is the current grid
AcceptedAsProposed ==
    IF isFading
    THEN TargetGrid = obs.nextGrid
    ELSE CurrentGrid = obs.nextGrid /\ TargetGrid = <<>>

\* C8: with try_revive_stuck_sim and hard_reset_on_stuck both off, a living proposal
\* classified stuck is accepted unmodified as the next generation, and stuckCounter,
\* fibonacciIndex and the history stay as they were.
C8_StuckAcceptedUnmodified ==
    [][(/\ clock' # clock
        /\ Advanced'
        /\ obs'.stuck
        /\ ~Extinct(obs'.nextGrid)
        /\ ~settings.try_revive_stuck_sim
        /\ ~settings.hard_reset_on_stuck)
       => (/\ AcceptedAsProposed'
           /\ UNCHANGED <<stuckCounterRef, fibonacciIndexRef, stateHistoryRef>>)]_vars

\* C9: a proposal classified not stuck is accepted unmodified as the next
\* generation, and stuckCounter and fibonacciIndex are 0 after the tick.
C9_NotStuckAcceptedUnmodified ==
    (Advanced /\ ~obs.stuck) =>
        /\ AcceptedAsProposed
        /\ stuckCounterRef = 0
        /\ fibonacciIndexRef = 0

\* the cycle length from the settings
CycleTime ==
    settings.simulation_speed * settings.fade_amount + settings.stable_display_time

GridCode(g) ==
    (IF g[1][1] THEN 8 ELSE 0) + (IF g[1][2] THEN 4 ELSE 0)
        + (IF g[2][1] THEN 2 ELSE 0) + (IF g[2][2] THEN 1 ELSE 0)

\* The grids of a run are taken up to renaming: a grid not seen before is the one
\* with the lowest unused number.  (isSimulationStuck only compares fingerprints.)
StuckInputs ==
    {g \in AllGrids(2, 2) :
        GridCode(g) <= 1 + Cardinality({obs.recorded[i] : i \in 1..Len(obs.recorded)})}

InitStuck ==
    /\ animation = AnimationNone
    /\ settings = PlainSettings
    /\ grid = <<>>
    /\ RestIdle
    /\ obs = ObsNone

\* isSimulationStuck(g), for as long as fewer than MaxRecorded grids were recorded;
\* obs.recorded is the list of the grids it was called with and returned false for
callIsSimulationStuck ==
    /\ Len(obs.recorded) < MaxRecorded
    /\ \E g \in StuckInputs :
       \E verdict \in {isSimulationStuck(g, stateHistoryRef)} :
          /\ stateHistoryRef' = verdict.history
          /\ obs' = [ObsNone EXCEPT !.op = "isSimulationStuck",
                                    !.nextGrid = g,
                                    !.stuck = verdict.stuck,
                                    !.recorded = IF verdict.stuck THEN obs.recorded
                                                 ELSE Append(obs.recorded, g)]
    /\ UNCHANGED <<settings, grid, coloredGrid, targetGrid, targetColoredGrid, isFading,
                   lastUpdateRef, stuckCounterRef, fadeStartTimeRef, fibonacciIndexRef,
                   wallpaperPaused, innerWidth, innerHeight, clock>>

NextStuck == callIsSimulationStuck /\ UNCHANGED animation

SpecStuck == InitStuck /\ [][NextStuck]_vars

\* the last n entries of a sequence
LastOf(seq, n) == SubSeq(seq, Max(1, Len(seq) - n + 1), Len(seq))

\* C3: for a grid with a live cell isSimulationStuck returns true exactly when the
\* grid's fingerprint is among the at most 10 fingerprints recorded last; a grid
\* recorded 11 or more recordings ago is not flagged; a grid that is not flagged is
\* recorded, and the history holds the last 10 recorded fingerprints.
C3_StuckIffAmongLastTen ==
    (obs.op = "isSimulationStuck" /\ LiveCells(obs.nextGrid) # {}) =>
        LET before == IF obs.stuck THEN obs.recorded
                      ELSE SubSeq(obs.recorded, 1, Len(obs.recorded) - 1)
            lastTen == LastOf(before, 10)
        IN  /\ obs.stuck <=> \E i \in 1..Len(lastTen) : lastTen[i] = obs.nextGrid
            /\ ~obs.stuck =>
                  /\ Len(obs.recorded) >= 1
                  /\ obs.recorded[Len(obs.recorded)] = obs.nextGrid
            /\ Len(stateHistoryRef) <= 10
            /\ Len(stateHistoryRef) = Len(LastOf(obs.recorded, 10))
            /\ \A i \in 1..Len(stateHistoryRef) :
                  LET h == LastOf(obs.recorded, 10)[i]
                  IN  stateHistoryRef[i] =
                          << IF h[1][1] THEN "1" ELSE "0", IF h[1][2] THEN "1" ELSE "0",
                             IF h[2][1] THEN "1" ELSE "0", IF h[2][2] THEN "1" ELSE "0" >>

\* the grid recorded first is offered again after ten others: it is not flagged
C3_Witness ==
    /\ obs.op = "isSimulationStuck"
    /\ ~obs.stuck
    /\ Len(obs.recorded) = 12
    /\ obs.nextGrid = obs.recorded[1]
    /\ Len(stateHistoryRef) = 10

\* ---- the fade and the commit ----

\* C11: with fadeTime = 0 an advancing tick that does not reset commits at once:
\* after it the current grid is the grid its stuck decision accepted (the proposal,
\* or the flipped grid when the revival path flipped cells), the target is cleared
\* and no fade is running.
C11_ImmediateCommit ==
    (Advanced /\ fadeTime = 0 /\ obs.branch \in {"accept", "acceptStuck", "flip"}) =>
        /\ CurrentGrid = obs.accepted
        /\ TargetGrid = <<>>
        /\ ~isFading

\* C12: a tick while fading whose progress min((timestamp - fadeStartTime) /
\* fadeTime, 1) reaches 1 commits the fade: the current grid becomes the target held
\* during the fade, the target is cleared and fading ends; a fading tick with
\* progress below 1 changes none of current, target and fading.
C12_FadeCommit ==
    [][(clock' # clock /\ ~wallpaperPaused /\ isFading)
       => IF clock' - fadeStartTimeRef >=
                 settings.simulation_speed * settings.fade_amount
          THEN /\ CurrentGrid' = TargetGrid
               /\ TargetGrid' = <<>>
               /\ ~isFading'
          ELSE UNCHANGED <<grid, coloredGrid, targetGrid, targetColoredGrid,
                           isFading>>]_vars

\* a fade of two frames committed on its second frame
C12_Witness ==
    /\ obs.branch = "fadeCommit"
    /\ clock = fadeStartTimeRef + 2
    /\ CurrentGrid # <<>>
    /\ TargetGrid = <<>>
    /\ ~isFading

\* C13 as stated: every reset and every perturbation of an advance replaces the
\* target grid and leaves the current grid as it was in that tick.
C13_RecoveryReplacesTarget ==
    [][(clock' # clock /\ Advanced' /\ obs'.branch \in ResetBranches \cup {"flip"})
       => (CurrentGrid' = CurrentGrid /\ TargetGrid' # <<>>)]_vars

\* C13, amended: a reset of an advance replaces the current grid at once by a new
\* random grid, clears the target and ends with no fade running; a perturbation,
\* when a fade is configured, makes the flipped grid the target, starts the fade
\* and leaves the current grid as it was in that tick.
C13_ResetReplacesCurrent ==
    [][(clock' # clock /\ Advanced')
       => /\ obs'.branch \in ResetBranches =>
                 /\ CurrentGrid' \in FreshGrids
                 /\ TargetGrid' = <<>>
                 /\ ~isFading'
          /\ (obs'.branch = "flip" /\ fadeTime > 0) =>
                 /\ CurrentGrid' = CurrentGrid
                 /\ TargetGrid' = obs'.accepted
                 /\ isFading'
                 /\ fadeStartTimeRef' = clock']_vars

\* a reset over max_revival_attempts with a fade configured: no fade follows
C13_Witness ==
    /\ Advanced
    /\ obs.branch = "maxReset"
    /\ fadeTime > 0
    /\ CurrentGrid \in FreshGrids
    /\ TargetGrid = <<>>
    /\ ~isFading

\* the alive/dead pattern of a grid of the mode
Pattern(g) == IF settings.color_mode THEN AlivePattern(g) ELSE g

\* one generation of a pattern by the rule of Life
LifeStep(g, wrapping) ==
    [x \in 1..Height(g) |->
        [y \in 1..Width(g) |->
            LET n == Cardinality(LiveAround(g, x, y, wrapping))
            IN  (g[x][y] /\ n \in {2, 3}) \/ (~g[x][y] /\ n = 3)]]

\* C14: a tick taken while window.wallpaperPaused is set changes no simulation
\* state (current, target, fading, lastUpdate, fadeStartTime, history, stuckCounter,
\* fibonacciIndex), renders nothing and reschedules the next tick; and every
\* advance, however long after the last one, proposes exactly the next generation
\* of the current grid: none is skipped after a pause.
C14_PausedTickFreezes ==
    [][clock' # clock =>
          /\ wallpaperPaused =>
                 /\ UNCHANGED <<grid, coloredGrid, targetGrid, targetColoredGrid,
                                isFading, lastUpdateRef, fadeStartTimeRef,
                                stateHistoryRef, stuckCounterRef, fibonacciIndexRef>>
                 /\ obs'.render = "none"
                 /\ obs'.rescheduled
                 /\ ~Advanced'
          /\ Advanced' =>
                 Pattern(obs'.nextGrid) =
                     LifeStep(Pattern(CurrentGrid), settings.edge_wrapping)]_vars

\* a paused tick two cycles after the last advance, with a living grid waiting
C14_Witness ==
    /\ obs.op = "gameLoop"
    /\ obs.branch = "paused"
    /\ wallpaperPaused
    /\ ~isFading
    /\ ~Extinct(CurrentGrid) /\ CurrentGrid # <<>>
    /\ CycleTime = 2
    /\ clock - lastUpdateRef >= 4

\* ---- the events of the host: resize, click, applyUserProperties ----

\* the grid createRandomGrid / createRandomColoredGrid can return for the
\* dimensions of the moment
freshGrid ==
    createRandomGrid(calculateGridDimensions.width, calculateGridDimensions.height)

freshColoredGrid ==
    createRandomColoredGrid(calculateGridDimensions.width,
                            calculateGridDimensions.height)

\* the effects clearing the history only
clearRefs_historyOnly ==
    /\ stateHistoryRef' = <<>>
    /\ UNCHANGED <<stuckCounterRef, fibonacciIndexRef>>

\* the three stuck-detection refs cleared (reset effect, mode-switch effect)
clearRefs ==
    /\ stateHistoryRef' = <<>>
    /\ stuckCounterRef' = 0
    /\ fibonacciIndexRef' = 0

\* The effects that run after a render in which calculateGridDimensions or
\* settings.color_mode is new (settings' and the viewport are already set), in
\* their order: the mount effect's initializeSimulation, the reset effect, the
\* mode-switch effect; each reads the grids of that render, the last setter wins.
\* The mode-switch effect runs once more when a grid's length changed.
runGridEffects ==
    LET mode == settings'.color_mode
        activeEmpty == IF mode THEN coloredGrid = <<>> ELSE grid = <<>>
        anyGrid == grid # <<>> \/ coloredGrid # <<>>
    IN  /\ isFading' = FALSE
        /\ clearRefs
        /\ IF mode
           THEN /\ coloredGrid' \in freshColoredGrid'
                /\ targetColoredGrid' = <<>>
                /\ IF activeEmpty /\ anyGrid
                   THEN grid' = <<>> /\ targetGrid' = <<>>
                   ELSE UNCHANGED <<grid, targetGrid>>
           ELSE /\ grid' \in freshGrid'
                /\ targetGrid' = <<>>
                /\ IF activeEmpty /\ anyGrid
                   THEN coloredGrid' = <<>> /\ targetColoredGrid' = <<>>
                   ELSE UNCHANGED <<coloredGrid, targetColoredGrid>>

\* the values the host sets in this model, per field
PropertyValues ==
    [cell_size |-> {2, 3}, cell_padding |-> {0, 1}, cell_corner_radius |-> {0, 8},
     bottom_margin |-> {0, 2}, color_mode |-> BOOLEAN]

\* applyUserProperties({field: {value}}): setSettings, then the effects whose
\* dependencies changed.  cell_corner_radius is a dependency of renderGrid only.
applyUserProperties ==
    \E field \in DOMAIN PropertyValues :
    \E value \in PropertyValues[field] \ {settings[field]} :
        /\ settings' = [settings EXCEPT ![field] = value]
        /\ UNCHANGED <<innerWidth, innerHeight, wallpaperPaused, clock, lastUpdateRef,
                       fadeStartTimeRef>>
        /\ IF field = "cell_corner_radius"
           THEN UNCHANGED <<grid, coloredGrid, targetGrid, targetColoredGrid, isFading,
                            stateHistoryRef, stuckCounterRef, fibonacciIndexRef>>
           ELSE runGridEffects
        /\ obs' = ObsOf("applyUserProperties", field, "none")

\* the viewport sizes the host resizes between
ResizeViewports == {<<6, 6>>, <<4, 6>>}

\* window resize: the listener is initializeSimulation, which creates a grid only
\* when the mode has none (then the mode-switch effect runs on the new length)
resize ==
    /\ \E v \in ResizeViewports \ {<<innerWidth, innerHeight>>} :
          innerWidth' = v[1] /\ innerHeight' = v[2]
    /\ UNCHANGED <<settings, wallpaperPaused, clock, lastUpdateRef, fadeStartTimeRef>>
    /\ IF (IF settings.color_mode THEN coloredGrid = <<>> ELSE grid = <<>>)
       THEN runGridEffects
       ELSE UNCHANGED <<grid, coloredGrid, targetGrid, targetColoredGrid, isFading,
                        stateHistoryRef, stuckCounterRef, fibonacciIndexRef>>
    /\ obs' = ObsOf("resize", "none", "none")

\* a click on the page: the rendered div and canvas carry no onClick and no
\* listener for pointer events is registered, so nothing runs
click ==
    /\ obs' = ObsOf("click", "none", "none")
    /\ UNCHANGED <<settings, grid, coloredGrid, targetGrid, targetColoredGrid, isFading,
                   lastUpdateRef, stateHistoryRef, stuckCounterRef, fadeStartTimeRef,
                   fibonacciIndexRef, wallpaperPaused, innerWidth, innerHeight, clock>>

InitEvents ==
    /\ animation = AnimationNone
    /\ \E mode \in BOOLEAN, fadeAmount \in {0, 1} :
          settings = [PlainSettings EXCEPT !.color_mode = mode,
                                           !.fade_amount = fadeAmount,
                                           !.stable_display_time = 0,
                                           !.max_revival_attempts = 1]
    /\ grid = <<>>
    /\ RestIdle
    /\ obs = ObsNone

NextEvents ==
    \/ AnimationFrame /\ UNCHANGED animation
    \/ initializeSimulation /\ UNCHANGED animation
    \/ applyUserProperties /\ UNCHANGED animation
    \/ resize /\ UNCHANGED animation
    \/ click /\ UNCHANGED animation

SpecEvents == InitEvents /\ [][NextEvents]_vars

\* C15: a click, in any state with a grid, performs a full reset: a new random grid
\* of the current dimensions, target cleared, fading false, history empty and both
\* counters 0.
C15_ClickResets ==
    [][(obs'.op = "click" /\ CurrentGrid # <<>>) => FullResetState']_vars

\* C16: a resize, in any state with a grid, recomputes the dimensions from the new
\* viewport and performs a full reset with a grid of those dimensions.
C16_ResizeResets ==
    [][(<<innerWidth, innerHeight>>' # <<innerWidth, innerHeight>>
        /\ CurrentGrid # <<>>)
       => (/\ FullResetState'
           /\ Height(CurrentGrid') = calculateGridDimensions'.height
           /\ Width(CurrentGrid') = calculateGridDimensions'.width)]_vars

\* some field of the set is changed by the step
Changed(fields) == \E f \in fields : settings'[f] # settings[f]

\* what a change of a rendering-only field leaves alone
SimulationState ==
    <<grid, coloredGrid, targetGrid, targetColoredGrid, isFading, lastUpdateRef,
      fadeStartTimeRef, stateHistoryRef, stuckCounterRef, fibonacciIndexRef>>

\* C17 as stated: a change of cell_size, cell_padding, cell_corner_radius,
\* bottom_margin or color_mode, in any state with a grid, forces a reset.
C17_GeometryOrModeChangeResets ==
    [][(/\ Changed({"cell_size", "cell_padding", "cell_corner_radius",
                    "bottom_margin", "color_mode"})
        /\ CurrentGrid # <<>>)
       => FullResetState']_vars

\* C17, amended: a change of cell_size, cell_padding, bottom_margin or color_mode,
\* in any state with a grid, forces a reset: a new random grid for the mode now
\* active with the dimensions now computed, target cleared, fading false, history
\* empty, both counters 0; a change of cell_corner_radius changes no simulation
\* state.
C17_GridAffectingChangeResets ==
    [][/\ (Changed({"cell_size", "cell_padding", "bottom_margin", "color_mode"})
           /\ CurrentGrid # <<>>)
          => /\ FullResetState'
             /\ Height(CurrentGrid') = calculateGridDimensions'.height
             /\ Width(CurrentGrid') = calculateGridDimensions'.width
       /\ Changed({"cell_corner_radius"}) => UNCHANGED SimulationState]_vars

\* cell_size set to 3 right after a stuck classification: a fresh 2 x 2 grid
C17_Witness ==
    /\ obs.op = "applyUserProperties"
    /\ obs.branch = "cell_size"
    /\ obs.consecStuck >= 1
    /\ settings.cell_size = 3
    /\ Height(CurrentGrid) = 2 /\ Width(CurrentGrid) = 2
    /\ FullResetState

\* ---- the history under recordings and resets ----

\* stateHistoryRef.current = [] with the counters, as every reset block and the
\* reset and mode-switch effects do
resetHistory ==
    /\ stateHistoryRef # <<>>
    /\ stateHistoryRef' = <<>>
    /\ stuckCounterRef' = 0
    /\ fibonacciIndexRef' = 0
    /\ obs' = [ObsNone EXCEPT !.op = "resetHistory"]
    /\ UNCHANGED <<settings, grid, coloredGrid, targetGrid, targetColoredGrid, isFading,
                   lastUpdateRef, fadeStartTimeRef, wallpaperPaused, innerWidth,
                   innerHeight, clock>>

NextHistory ==
    \/ callIsSimulationStuck /\ UNCHANGED animation
    \/ resetHistory /\ UNCHANGED animation

SpecHistory == InitStuck /\ [][NextHistory]_vars

\* the cells of a grid of the mode in reading order, "1" for alive and "0" for dead
Flat(g) ==
    [k \in 1..(Height(g) * Width(g)) |->
        IF Pattern(g)[((k - 1) \div Width(g)) + 1][((k - 1) % Width(g)) + 1]
        THEN "1" ELSE "0"]

\* C18: the history never holds more than 10 fingerprints; a grid classified as
\* not stuck has its fingerprint put at the end, behind the fingerprints recorded
\* before it in their order, and put at the end of a history of 10 it evicts
\* exactly the oldest; nothing else changes the history but a reset emptying it.
C18_BoundedFifo ==
    [][/\ Len(stateHistoryRef') <= 10
       /\ IF obs' # obs /\ obs'.nextGrid # <<>> /\ ~obs'.stuck
          THEN stateHistoryRef' =
                   Append(IF Len(stateHistoryRef) = 10
                          THEN SubSeq(stateHistoryRef, 2, 10)
                          ELSE stateHistoryRef,
                          Flat(obs'.nextGrid))
          ELSE stateHistoryRef' \in {stateHistoryRef, <<>>}]_vars

\* the eleventh recording since the last reset: the first one is gone
C18_Witness ==
    /\ obs.op = "isSimulationStuck"
    /\ ~obs.stuck
    /\ Len(obs.recorded) = 11
    /\ Len(stateHistoryRef) = 10
    /\ stateHistoryRef[1] = Flat(obs.recorded[2])
    /\ stateHistoryRef[10] = Flat(obs.recorded[11])

(***************************************************************************)
(* Colour and age of the cells of colour mode.                             *)
(***************************************************************************)
\* every cell of g has a colour and an age exactly when it is alive
ColorAndAgeIffAlive(g) ==
    \A x \in 1..Len(g) : \A y \in 1..Len(g[x]) :
        /\ g[x][y].alive <=> g[x][y].color # NoColor
        /\ g[x][y].alive <=> g[x][y].age # NoAge

\* every live cell of g has age 1
AllNewborn(g) ==
    \A x \in 1..Len(g) : \A y \in 1..Len(g[x]) : g[x][y].alive => g[x][y].age = 1

\* every live cell of next was alive in prev with an age one less, or, dead in
\* prev, has age 1
AgedFrom(prev, next) ==
    \A x \in 1..Len(next) : \A y \in 1..Len(next[x]) :
        next[x][y].alive =>
            next[x][y].age = IF prev[x][y].alive THEN prev[x][y].age + 1 ELSE 1

\* every live cell of flipped is the cell of proposed at its place or has age 1
FlippedFrom(proposed, flipped) ==
    \A x \in 1..Len(flipped) : \A y \in 1..Len(flipped[x]) :
        flipped[x][y].alive =>
            flipped[x][y] = proposed[x][y] \/ flipped[x][y].age = 1

\* C19: in colour mode every cell of the current grid, of the fade target, of a
\* proposed and of a perturbed grid has a colour and an age exactly when it is
\* alive; a grid made by creation or reset has age 1 in every live cell; in the
\* grid proposed by a step a cell that was alive before has its previous age plus
\* 1 and a cell born has age 1; a cell the perturbation flipped alive has age 1.
C19_ColorAndAgeIffAlive ==
    [][settings'.color_mode =>
        /\ ColorAndAgeIffAlive(coloredGrid')
        /\ ColorAndAgeIffAlive(targetColoredGrid')
        /\ (coloredGrid = <<>> /\ coloredGrid' # <<>>) => AllNewborn(coloredGrid')
        /\ (obs' # obs /\ obs'.branch \in ResetBranches) => AllNewborn(coloredGrid')
        /\ (obs' # obs /\ Advanced' /\ settings.color_mode) =>
               /\ ColorAndAgeIffAlive(obs'.nextGrid)
               /\ AgedFrom(coloredGrid, obs'.nextGrid)
               /\ obs'.accepted # <<>> =>
                      /\ ColorAndAgeIffAlive(obs'.accepted)
                      /\ FlippedFrom(obs'.nextGrid, obs'.accepted)]_vars

\* a perturbed grid of colour mode with a cell flipped alive next to a survivor
\* of the step, which is older than 1
C19_Witness ==
    /\ settings.color_mode
    /\ Advanced
    /\ obs.branch = "flip"
    /\ \E x \in 1..Len(obs.accepted) : \E y \in 1..Len(obs.accepted[x]) :
           /\ obs.accepted[x][y].alive
           /\ ~obs.nextGrid[x][y].alive
           /\ obs.accepted[x][y].age = 1
    /\ \E x \in 1..Len(obs.accepted) : \E y \in 1..Len(obs.accepted[x]) :
           /\ obs.accepted[x][y].alive
           /\ obs.accepted[x][y].age >= 2

(***************************************************************************)
(* A lone live cell.                                                       *)
(***************************************************************************)
\* C20: in a grid of any height and width from 1 on that holds exactly one live
\* cell, with edge_wrapping on or off, that cell is dead in nextGeneration(grid).
C20_LoneCellDies ==
    (obs.op = "nextGeneration" /\ Cardinality(LiveCells(grid)) = 1) =>
        \A c \in LiveCells(grid) : ~obs.nextGrid[c[1]][c[2]]

(***************************************************************************)
(* Repeated stepping: the grid a step returns is the grid the next step is *)
(* given, as in the game loop when every proposal is accepted.             *)
(***************************************************************************)
\* a coloured grid with the alive/dead pattern g, as createRandomColoredGrid
\* fills it: a live cell has a drawn colour and age 1
coloredFrom(g) ==
    [x \in 1..Height(g) |->
        [y \in 1..Width(g) |->
            IF g[x][y]
            THEN [alive |-> TRUE, color |-> generateRandomColor(x, y), age |-> 1]
            ELSE DeadCell]]

\* the grids whose only live cells are three horizontally adjacent cells, the
\* columns taken around the edge
Blinkers(width, height) ==
    {[x \in 1..height |->
        [y \in 1..width |->
            x = cx /\ y \in {((cy - 2) % width) + 1, cy, (cy % width) + 1}]] :
        cx \in 1..height, cy \in 1..width}

\* the grids stepped: every grid of up to MaxDim rows and columns and up to
\* MaxCells cells, and the blinker grids
RunInputs ==
    UNION {AllGrids(d[1], d[2]) :
              d \in {e \in (1..MaxDim) \X (1..MaxDim) : e[1] * e[2] <= MaxCells}}
    \cup UNION {Blinkers(width, height) : width \in BlinkerDim..(BlinkerDim + 1),
                                          height \in BlinkerDim..(BlinkerDim + 1)}

InitRun ==
    /\ animation = AnimationNone
    /\ \E wrapping \in BOOLEAN, colorMode \in BOOLEAN, g \in RunInputs :
      \E pure \in {b \in BOOLEAN : b => colorMode} :
          /\ settings = [PlainSettings EXCEPT !.edge_wrapping = wrapping,
                                              !.color_mode = colorMode,
                                              !.random_color_pure = pure]
          /\ grid = IF colorMode THEN <<>> ELSE g
          /\ coloredGrid = IF colorMode THEN coloredFrom(g) ELSE <<>>
    /\ targetGrid = <<>>
    /\ targetColoredGrid = <<>>
    /\ isFading = FALSE
    /\ lastUpdateRef = 0
    /\ stateHistoryRef = <<>>
    /\ stuckCounterRef = 0
    /\ fadeStartTimeRef = 0
    /\ fibonacciIndexRef = 0
    /\ wallpaperPaused = FALSE
    /\ innerWidth = 6
    /\ innerHeight = 6
    /\ clock = 0
    /\ obs = ObsNone

\* nextGrid = nextGeneration(grid) or nextGenerationColored(coloredGrid), and
\* nextGrid becomes the grid; obs.recorded lists the grids stepped so far
stepGeneration ==
    /\ clock < MaxRun
    /\ clock' = clock + 1
    /\ IF settings.color_mode
       THEN /\ \E nextGrid \in nextGenerationColored(coloredGrid, settings.edge_wrapping) :
                  /\ coloredGrid' = nextGrid
                  /\ obs' = [ObsNone EXCEPT !.op = "stepGeneration",
                                            !.nextGrid = nextGrid,
                                            !.recorded = Append(obs.recorded, coloredGrid)]
            /\ UNCHANGED grid
       ELSE /\ grid' = nextGeneration(grid, settings.edge_wrapping)
            /\ obs' = [ObsNone EXCEPT !.op = "stepGeneration",
                                      !.nextGrid = grid',
                                      !.recorded = Append(obs.recorded, grid)]
            /\ UNCHANGED coloredGrid
    /\ UNCHANGED <<settings, targetGrid, targetColoredGrid, isFading, lastUpdateRef,
                   stateHistoryRef, stuckCounterRef, fadeStartTimeRef, fibonacciIndexRef,
                   wallpaperPaused, innerWidth, innerHeight>>

NextRun == stepGeneration /\ UNCHANGED animation

SpecRun == InitRun /\ [][NextRun]_vars

\* g has only dead cells
AllDead(g) == \A x \in 1..Len(g) : \A y \in 1..Len(g[x]) : ~g[x][y]

\* C21: a grid without a live cell, of any size and with either edge setting,
\* stepped any number of times by nextGeneration or nextGenerationColored, stays
\* without a live cell and keeps its height and the width of every row.
C21_AllDeadStaysDead ==
    (obs.op = "stepGeneration" /\ AllDead(Pattern(obs.recorded[1]))) =>
        /\ AllDead(Pattern(CurrentGrid))
        /\ Height(CurrentGrid) = Height(obs.recorded[1])
        /\ \A x \in 1..Height(CurrentGrid) :
              Len(CurrentGrid[x]) = Len(obs.recorded[1][x])
        /\ settings.color_mode =>
              \A x \in 1..Height(CurrentGrid) : \A y \in 1..Len(CurrentGrid[x]) :
                  CurrentGrid[x][y] = DeadCell

\* an empty coloured 2 x 3 grid stepped MaxRun times
C21_Witness ==
    /\ obs.op = "stepGeneration"
    /\ settings.color_mode
    /\ clock = MaxRun
    /\ AllDead(Pattern(obs.recorded[1]))
    /\ Height(coloredGrid) = 2 /\ Width(coloredGrid) = 3
    /\ AllDead(AlivePattern(coloredGrid))

\* the position n steps from p on a ring of size positions numbered from 1
Around(p, n, size) == ((p - 1 + n) % size) + 1

\* g holds exactly three horizontally adjacent live cells centred on (cx, cy)
HorizontalAt(g, cx, cy) ==
    LiveCells(g) = {<<cx, Around(cy, -1, Width(g))>>, <<cx, cy>>,
                    <<cx, Around(cy, 1, Width(g))>>}

\* g holds exactly three vertically adjacent live cells centred on (cx, cy)
VerticalAt(g, cx, cy) ==
    LiveCells(g) = {<<Around(cx, -1, Height(g)), cy>>, <<cx, cy>>,
                    <<Around(cx, 1, Height(g)), cy>>}

\* C22: in a wrapped grid of at least 5 x 5 cells whose only live cells are three
\* horizontally adjacent cells, the first step gives exactly the three vertically
\* adjacent cells with the same centre, the second step gives the first grid
\* again, and so on with period 2.
C22_BlinkerPeriodTwo ==
    (obs.op = "stepGeneration" /\ ~settings.color_mode /\ settings.edge_wrapping
        /\ Height(obs.recorded[1]) >= 5 /\ Width(obs.recorded[1]) >= 5) =>
        \A cx \in 1..Height(grid), cy \in 1..Width(grid) :
            HorizontalAt(obs.recorded[1], cx, cy) =>
                /\ Height(grid) = Height(obs.recorded[1])
                /\ Width(grid) = Width(obs.recorded[1])
                /\ IF clock % 2 = 1
                   THEN VerticalAt(grid, cx, cy)
                   ELSE grid = obs.recorded[1]

\* the third step of a blinker lying across the left and right edge, at the top
\* row of a wrapped 5 x 5 grid: it stands upright across the top and bottom edge
C22_Witness ==
    /\ obs.op = "stepGeneration"
    /\ ~settings.color_mode
    /\ settings.edge_wrapping
    /\ Height(grid) = 5 /\ Width(grid) = 5
    /\ clock = 3
    /\ HorizontalAt(obs.recorded[1], 1, 1)
    /\ HorizontalAt(obs.recorded[3], 1, 1)
    /\ VerticalAt(grid, 1, 1)

(***************************************************************************)
(* fibonacci on its own, called as the revival path calls it: with         *)
(* fibonacciIndexRef, which is below max_revival_attempts at the call.     *)
(***************************************************************************)
InitFib ==
    /\ animation = AnimationNone
    /\ \E n \in 0..MaxFib, attempts \in 1..(MaxFib + 1) :
          /\ n < attempts
          /\ fibonacciIndexRef = n
          /\ settings = [PlainSettings EXCEPT !.max_revival_attempts = attempts]
    /\ grid = <<>>
    /\ coloredGrid = <<>>
    /\ targetGrid = <<>>
    /\ targetColoredGrid = <<>>
    /\ isFading = FALSE
    /\ lastUpdateRef = 0
    /\ stateHistoryRef = <<>>
    /\ stuckCounterRef = 0
    /\ fadeStartTimeRef = 0
    /\ wallpaperPaused = FALSE
    /\ innerWidth = 6
    /\ innerHeight = 6
    /\ clock = 0
    /\ obs = ObsNone

\* const cellsToFlip = fibonacci(fibonacciIndexRef.current)
callFibonacci ==
    /\ obs.op = "none"
    /\ obs' = [ObsNone EXCEPT !.op = "fibonacci",
                              !.cellsToFlip = fibonacci(fibonacciIndexRef)]
    /\ UNCHANGED <<settings, grid, coloredGrid, targetGrid, targetColoredGrid, isFading,
                   lastUpdateRef, stateHistoryRef, stuckCounterRef, fadeStartTimeRef,
                   fibonacciIndexRef, wallpaperPaused, innerWidth, innerHeight, clock>>

NextFib == callFibonacci /\ UNCHANGED animation

SpecFib == InitFib /\ [][NextFib]_vars

\* C23: fibonacci(0) = 1 and fibonacci(1) = 1; for every n from 2 on
\* fibonacci(n) = fibonacci(n - 1) + fibonacci(n - 2); fibonacci(2) = 2 and
\* fibonacci(5) = 8.
C23_FibonacciRecurrence ==
    obs.op = "fibonacci" =>
        LET n == fibonacciIndexRef
        IN  /\ n \in {0, 1} => obs.cellsToFlip = 1
            /\ n >= 2 => obs.cellsToFlip = fibonacci(n - 1) + fibonacci(n - 2)
            /\ n = 2 => obs.cellsToFlip = 2
            /\ n = 5 => obs.cellsToFlip = 8

\* fibonacci(5) returned 8
C23_Witness ==
    /\ obs.op = "fibonacci"
    /\ fibonacciIndexRef = 5
    /\ obs.cellsToFlip = 8

(***************************************************************************)
(* renderGrid: what is drawn.  Opacities are in hundredths; alpha is kept  *)
(* as a fraction in lowest terms, so that equal values are equal records.  *)
(***************************************************************************)
RECURSIVE gcd(_, _)
gcd(a, b) == IF b = 0 THEN a ELSE gcd(b, a % b)

\* the number num / den, den > 0
Fraction(num, den) == [num |-> num \div gcd(num, den), den |-> den \div gcd(num, den)]

\* Math.min(count * settings.neighbor_opacity_increment, 0.8)
neighborOpacity(count) == Min(count * settings.neighbor_opacity_increment, 80)

\* current * progress + target * (1 - progress): the weights exchanged
blend_exchanged(current, target, progress) ==
    current * progress.num + target * (progress.den - progress.num)

\* current * (1 - progress) + target * progress, times progress.den
blend(current, target, progress) ==
    current * (progress.den - progress.num) + target * progress.num

\* opacity of one cell of a plain grid: 1 if alive, else the neighbour glow
cellOpacity(g, x, y) ==
    IF g[x][y] THEN 100
    ELSE IF settings.neighbor_opacity_enabled
    THEN LET neighborCount == countNeighbors(g, x, y, settings.edge_wrapping)
         IN  IF neighborCount > 0 THEN neighborOpacity(neighborCount) ELSE 0
    ELSE 0

\* opacity and colour of one cell of a coloured grid; initial is the colour the
\* code starts from
cellOpacityColored(g, x, y, initial) ==
    IF g[x][y].alive /\ g[x][y].color # NoColor
    THEN [opacity |-> 100, color |-> g[x][y].color]
    ELSE IF settings.neighbor_opacity_enabled
    THEN LET n == countNeighborsColored(g, x, y, settings.edge_wrapping)
         IN  IF n.count > 0
             THEN [opacity |-> neighborOpacity(n.count), color |-> averageColors(n.colors)]
             ELSE [opacity |-> 0, color |-> initial]
    ELSE [opacity |-> 0, color |-> initial]

\* alpha, r, g, b of one cell, or alpha = 0 / NaN: nothing is drawn
renderCell(currentGrid, nextGrid, progress, fading, x, y) ==
    LET blending == settings.fade_amount > 0 /\ nextGrid # <<>> /\ fading
        black == [r |-> 0, g |-> 0, b |-> 0]
    IN  IF settings.color_mode
        THEN IF blending
             THEN LET current == cellOpacityColored(currentGrid, x, y, black)
                      target == cellOpacityColored(nextGrid, x, y, black)
                  IN  IF progress.den = 0 THEN [alpha |-> Fraction(0, 1), color |-> black]
                      ELSE [alpha |-> Fraction(blend(current.opacity, target.opacity,
                                                     progress),
                                               100 * progress.den),
                            color |->
                                [r |-> Round(blend(current.color.r, target.color.r,
                                                   progress), progress.den),
                                 g |-> Round(blend(current.color.g, target.color.g,
                                                   progress), progress.den),
                                 b |-> Round(blend(current.color.b, target.color.b,
                                                   progress), progress.den)]]
             ELSE LET current == cellOpacityColored(currentGrid, x, y,
                                                    settings.foreground_color)
                  IN  [alpha |-> Fraction(current.opacity, 100), color |-> current.color]
        ELSE IF blending
             THEN IF progress.den = 0
                  THEN [alpha |-> Fraction(0, 1), color |-> settings.foreground_color]
                  ELSE [alpha |-> Fraction(blend(cellOpacity(currentGrid, x, y),
                                                 cellOpacity(nextGrid, x, y),
                                                 progress),
                                           100 * progress.den),
                        color |-> settings.foreground_color]
             ELSE [alpha |-> Fraction(cellOpacity(currentGrid, x, y), 100),
                   color |-> settings.foreground_color]

\* renderGrid(ctx, currentGrid, nextGrid, fadeProgress) under the isFading it
\* closes over: the cells filled, each with its rgba fill style
renderGrid(currentGrid, nextGrid, progress, fading) ==
    {[x |-> c[1], y |-> c[2],
      alpha |-> renderCell(currentGrid, nextGrid, progress, fading, c[1], c[2]).alpha,
      color |-> renderCell(currentGrid, nextGrid, progress, fading, c[1], c[2]).color] :
        c \in {d \in (1..Height(currentGrid)) \X (1..Width(currentGrid)) :
                  renderCell(currentGrid, nextGrid, progress, fading,
                             d[1], d[2]).alpha.num > 0}}

\* renderGrid(ctx, grid): no target, fadeProgress = 1, outside a fade
renderGridAlone(currentGrid) ==
    renderGrid(currentGrid, <<>>, [num |-> 1, den |-> 1], FALSE)

\* a coloured grid with the alive/dead pattern g and the other drawn colour in
\* every live cell, of age 2
coloredFromOther(g) ==
    [x \in 1..Height(g) |->
        [y \in 1..Width(g) |->
            IF g[x][y]
            THEN [alive |-> TRUE, color |-> generateRandomColor(x + 1, y), age |-> 2]
            ELSE DeadCell]]

\* the pairs of a current and a target grid of the same size
RenderPairs ==
    UNION {AllGrids(d[1], d[2]) \X AllGrids(d[1], d[2]) :
              d \in {e \in (1..MaxDim) \X (1..MaxDim) : e[1] * e[2] <= MaxRenderCells}}

\* the values of fadeProgress while and at the end of a fade
RenderProgress ==
    {fadeProgress(fadeElapsed, PlainSettings.simulation_speed) :
        fadeElapsed \in 0..PlainSettings.simulation_speed}

\* a fade in progress: current grid, target grid, isFading
InitRender ==
    /\ animation = AnimationNone
    /\ \E wrapping \in BOOLEAN, colorMode \in BOOLEAN, glow \in BOOLEAN,
          increment \in {15, 30}, fadeAmount \in {0, 1}, pair \in RenderPairs :
          /\ settings = [PlainSettings EXCEPT !.edge_wrapping = wrapping,
                                              !.color_mode = colorMode,
                                              !.neighbor_opacity_enabled = glow,
                                              !.neighbor_opacity_increment = increment,
                                              !.fade_amount = fadeAmount]
          /\ grid = IF colorMode THEN <<>> ELSE pair[1]
          /\ targetGrid = IF colorMode THEN <<>> ELSE pair[2]
          /\ coloredGrid = IF colorMode THEN coloredFrom(pair[1]) ELSE <<>>
          /\ targetColoredGrid = IF colorMode THEN coloredFromOther(pair[2]) ELSE <<>>
    /\ isFading = TRUE
    /\ lastUpdateRef = 0
    /\ stateHistoryRef = <<>>
    /\ stuckCounterRef = 0
    /\ fadeStartTimeRef = 0
    /\ fibonacciIndexRef = 0
    /\ wallpaperPaused = FALSE
    /\ innerWidth = 6
    /\ innerHeight = 6
    /\ clock = 0
    /\ obs = ObsNone

\* renderGrid(ctx, grid, targetGrid, fadeProgress), as the game loop calls it
\* while isFading
callRenderGrid ==
    /\ obs.op = "none"
    /\ \E progress \in RenderProgress :
          obs' = [ObsNone EXCEPT !.op = "renderGrid",
                                 !.progress = progress,
                                 !.drawn = renderGrid(CurrentGrid, TargetGrid, progress,
                                                      isFading)]
    /\ UNCHANGED <<settings, grid, coloredGrid, targetGrid, targetColoredGrid, isFading,
                   lastUpdateRef, stateHistoryRef, stuckCounterRef, fadeStartTimeRef,
                   fibonacciIndexRef, wallpaperPaused, innerWidth, innerHeight, clock>>

NextRender == callRenderGrid /\ UNCHANGED animation

SpecRender == InitRender /\ [][NextRender]_vars

\* the render at the start of the fade is the render of the current grid alone,
\* the render at its end is the render of the target grid alone
FadeEndsMatch ==
    /\ obs.progress.num = 0 => obs.drawn = renderGridAlone(CurrentGrid)
    /\ obs.progress.num = obs.progress.den => obs.drawn = renderGridAlone(TargetGrid)

\* C24 as stated: for every pair of grids of the same size and every setting, in
\* plain and colour mode, the cells drawn with their alpha and colour by the
\* render of a fade at progress 0 are those of the render of the current grid
\* alone, and at progress 1 those of the render of the target grid alone.
C24_FadeEndsMatchForEverySetting ==
    obs.op = "renderGrid" => FadeEndsMatch

\* C24, amended: the same for every setting with fade_amount above 0.
C24_FadeEndsMatchWhenFadeIsOn ==
    (obs.op = "renderGrid" /\ settings.fade_amount > 0) => FadeEndsMatch

\* the render at progress 1 of a coloured fade whose target differs from the
\* current grid, with a cell drawn at the glow of its neighbours
C24_Witness ==
    /\ obs.op = "renderGrid"
    /\ settings.color_mode
    /\ settings.fade_amount > 0
    /\ obs.progress.num = obs.progress.den
    /\ renderGridAlone(CurrentGrid) # renderGridAlone(TargetGrid)
    /\ \E c \in obs.drawn : c.alpha # Fraction(1, 1)
    /\ \E c \in obs.drawn : c.alpha = Fraction(1, 1)

(***************************************************************************)
(* averageColorsWeighted on its own.                                       *)
(***************************************************************************)
\* the colours given: the two drawn ones and one with odd channels
Palette ==
    {generateRandomColor(1, 1), generateRandomColor(1, 2), [r |-> 255, g |-> 254, b |-> 1]}

\* every list of up to n elements of S
ListsUpTo(S, n) == UNION {[1..k -> S] : k \in 0..n}

\* obs.colors and obs.ages are the arguments of the call to come
InitAverage ==
    /\ animation = AnimationNone
    /\ \E colors \in ListsUpTo(Palette, MaxColors),
          ages \in ListsUpTo(1..MaxAgeDrawn, MaxColors) :
          obs = [ObsNone EXCEPT !.colors = colors, !.ages = ages]
    /\ settings = PlainSettings
    /\ grid = <<>>
    /\ coloredGrid = <<>>
    /\ targetGrid = <<>>
    /\ targetColoredGrid = <<>>
    /\ isFading = FALSE
    /\ lastUpdateRef = 0
    /\ stateHistoryRef = <<>>
    /\ stuckCounterRef = 0
    /\ fadeStartTimeRef = 0
    /\ fibonacciIndexRef = 0
    /\ wallpaperPaused = FALSE
    /\ innerWidth = 6
    /\ innerHeight = 6
    /\ clock = 0

\* cellColor = averageColorsWeighted(colors, ages)
callAverageColorsWeighted ==
    /\ obs.op = "none"
    /\ obs' = [obs EXCEPT !.op = "averageColorsWeighted",
                          !.color = averageColorsWeighted(obs.colors, obs.ages)]
    /\ UNCHANGED <<settings, grid, coloredGrid, targetGrid, targetColoredGrid, isFading,
                   lastUpdateRef, stateHistoryRef, stuckCounterRef, fadeStartTimeRef,
                   fibonacciIndexRef, wallpaperPaused, innerWidth, innerHeight, clock>>

NextAverage == callAverageColorsWeighted /\ UNCHANGED animation

SpecAverage == InitAverage /\ [][NextAverage]_vars

\* C25: for a non-empty list of colours and a list of ages of the same length
\* whose entries are all equal and positive, averageColorsWeighted returns what
\* averageColors returns for the colours; for no colours both return white; for
\* lists of different lengths averageColorsWeighted returns averageColors(colors).
C25_EqualAgesGiveUnweighted ==
    obs.op = "averageColorsWeighted" =>
        LET white == [r |-> 255, g |-> 255, b |-> 255]
            equalAges == \A j, k \in 1..Len(obs.ages) :
                             obs.ages[j] = obs.ages[k] /\ obs.ages[j] > 0
        IN  /\ Len(obs.colors) = 0 =>
                  obs.color = white /\ averageColors(obs.colors) = white
            /\ Len(obs.colors) # Len(obs.ages) => obs.color = averageColors(obs.colors)
            /\ (Len(obs.colors) > 0 /\ Len(obs.colors) = Len(obs.ages) /\ equalAges) =>
                  obs.color = averageColors(obs.colors)

\* three colours, not all the same, of age 2 each, whose mean is rounded up
C25_Witness ==
    /\ obs.op = "averageColorsWeighted"
    /\ Len(obs.colors) = 3
    /\ obs.ages = <<2, 2, 2>>
    /\ obs.colors[1] # obs.colors[2]
    /\ obs.color = averageColors(obs.colors)
    /\ (obs.colors[1].r + obs.colors[2].r + obs.colors[3].r) % 3 = 2

(***************************************************************************)
(* The perturbation of the revival path.                                   *)
(***************************************************************************)
\* the positions at which two grids of the same size differ in alive/dead
DifferingCells(a, b) ==
    {c \in (1..Height(a)) \X (1..Width(a)) :
        Pattern(a)[c[1]][c[2]] # Pattern(b)[c[1]][c[2]]}

\* C26: in the revival path the accepted grid has the dimensions of the proposed
\* grid and differs from it in the alive/dead state of exactly cellsToFlip cells.
C26_ExactlyCellsToFlipToggled ==
    (Advanced /\ obs.branch = "flip") =>
        /\ Height(obs.accepted) = Height(obs.nextGrid)
        /\ \A x \in 1..Height(obs.accepted) :
              Len(obs.accepted[x]) = Len(obs.nextGrid[x])
        /\ Cardinality(DifferingCells(obs.nextGrid, obs.accepted)) = obs.cellsToFlip

(***************************************************************************)
(* Fades come to an end: the game loop under frames that keep arriving.    *)
(* Timestamps stop at MaxTime, so the last timestamp is kept for a frame   *)
(* that is not paused, and a fade is followed up if it is due by MaxTime.  *)
(***************************************************************************)
AnimationFrameLive ==
    \E timestamp \in (clock + 1)..Min(clock + MaxStep, MaxTime) :
        /\ wallpaperPaused => timestamp < MaxTime
        /\ gameLoop(timestamp)

\* a frame arrives: the step of the clock that AnimationFrameLive makes (no other
\* action changes the clock, and gameLoop can run at every timestamp)
FrameArrives ==
    \E timestamp \in (clock + 1)..Min(clock + MaxStep, MaxTime) :
        /\ wallpaperPaused => timestamp < MaxTime
        /\ clock' = timestamp

\* the host clears window.wallpaperPaused: the step of the signal that
\* setWallpaperPaused makes when it is set
clearWallpaperPaused == wallpaperPaused /\ wallpaperPaused' = FALSE

NextLive ==
    \/ AnimationFrameLive /\ UNCHANGED animation
    \/ initializeSimulation /\ UNCHANGED animation
    \/ setWallpaperPaused /\ UNCHANGED animation

\* Init with fading on
InitLive ==
    /\ Init
    /\ settings.fade_amount > 0

\* frames keep arriving, and the pause signal is not set for ever
SpecLive ==
    /\ InitLive
    /\ [][NextLive]_vars
    /\ SF_clock(FrameArrives)
    /\ WF_wallpaperPaused(clearWallpaperPaused)

\* a running fade whose time is over by the last timestamp
FadeDueInTime == isFading /\ fadeStartTimeRef + fadeTime <= MaxTime

\* C27: with frames arriving at growing timestamps, the pause signal not set for
\* ever and the settings unchanged, every fade that starts ends: while it runs
\* its target and the current grid stay as they are, isFading becomes false, and
\* when it does the grid that was the target is the current grid.
C27_FadeEventuallyEnds ==
    /\ [][(isFading /\ isFading') =>
              (TargetGrid' = TargetGrid /\ CurrentGrid' = CurrentGrid)]_vars
    /\ [][(isFading /\ ~isFading') =>
              (TargetGrid # <<>> /\ CurrentGrid' = TargetGrid)]_vars
    /\ (FadeDueInTime ~> ~isFading)

\* a fade ended later than its time was over, after paused frames
C27_Witness ==
    /\ obs.branch = "fadeCommit"
    /\ ~isFading
    /\ CurrentGrid # <<>>
    /\ clock > fadeStartTimeRef + fadeTime
    /\ clock < MaxTime

(***************************************************************************)
(* The two counters of the revival path.                                   *)
(***************************************************************************)
\* C28: after every tick, reset and setting change (max_revival_attempts itself
\* staying as it is) stuckCounter equals fibonacciIndex, and both are at most
\* max_revival_attempts.
C28_CountersEqualAndBounded ==
    /\ stuckCounterRef = fibonacciIndexRef
    /\ stuckCounterRef >= 0
    /\ stuckCounterRef <= settings.max_revival_attempts

\* both counters at max_revival_attempts after a perturbation, kept over a
\* setting change that resets nothing
C28_Witness ==
    /\ obs.op = "applyUserProperties"
    /\ stuckCounterRef = settings.max_revival_attempts
    /\ fibonacciIndexRef = settings.max_revival_attempts
    /\ stuckCounterRef > 0

\* C29: in every state (after every tick, reset, resize and setting change) a fade
\* is running exactly when the target grid of the mode is non-empty, and a
\* non-empty target grid has the height and the width of the current grid.
C29_FadingIffTarget ==
    /\ isFading <=> TargetGrid # <<>>
    /\ TargetGrid # <<>> =>
           /\ CurrentGrid # <<>>
           /\ Height(TargetGrid) = Height(CurrentGrid)
           /\ Width(TargetGrid) = Width(CurrentGrid)

\* a fade with its target standing, right after a setting change that resets nothing
C29_Witness ==
    /\ obs.op = "applyUserProperties"
    /\ isFading
    /\ TargetGrid # <<>>
    /\ Height(TargetGrid) = Height(CurrentGrid)
    /\ Width(TargetGrid) = Width(CurrentGrid)

\* every live cell of the coloured grid has a colour
AllAliveColored(g) ==
    \A x \in 1..Len(g) : \A y \in 1..Len(g[x]) : g[x][y].alive => g[x][y].color # NoColor

\* C30: for a coloured grid whose live cells all have a colour, with edge wrapping
\* on and off, the alive/dead pattern of nextGenerationColored(grid) is
\* nextGeneration of the alive/dead pattern of grid, whatever the colours and ages
\* of the cells and whatever the random draws of the call.
C30_ColoredStepRefinesPlain ==
    (settings.color_mode /\ obs.op = "stepGeneration") =>
        LET before == obs.recorded[Len(obs.recorded)]
        IN  AllAliveColored(before) =>
                /\ obs.nextGrid = coloredGrid
                /\ AlivePattern(coloredGrid) =
                       nextGeneration(AlivePattern(before), settings.edge_wrapping)
                /\ AllAliveColored(coloredGrid)

\* a coloured step from a grid with a colour in every live cell, cells of different
\* colours among them, that let a cell survive to age 3, a cell be born and a
\* cell die
C30_Witness ==
    /\ settings.color_mode
    /\ obs.op = "stepGeneration"
    /\ Len(obs.recorded) >= 2
    /\ LET before == obs.recorded[Len(obs.recorded)]
       IN  /\ AllAliveColored(before)
           /\ \E x \in 1..Height(before) : \E y \in 1..Width(before) :
                 before[x][y].alive /\ ~coloredGrid[x][y].alive
           /\ \E x \in 1..Height(before) : \E y \in 1..Width(before) :
                 ~before[x][y].alive /\ coloredGrid[x][y].alive /\ coloredGrid[x][y].age = 1
           /\ \E x \in 1..Height(before) : \E y \in 1..Width(before) :
                 before[x][y].alive /\ coloredGrid[x][y].alive /\ coloredGrid[x][y].age >= 3
           /\ \E x1, x2 \in 1..Height(before) : \E y1, y2 \in 1..Width(before) :
                 /\ before[x1][y1].alive /\ before[x2][y2].alive
                 /\ before[x1][y1].color # before[x2][y2].color

(***************************************************************************)
(* The scheduling of the tick callback: requestAnimationFrame in gameLoop  *)
(* and in the game-loop effect, cancelAnimationFrame in its cleanup.  A    *)
(* render whose gameLoop is new is outstanding from the setter calls until *)
(* its effects have run; React runs them before the next frame.            *)
(***************************************************************************)
\* the cleanup leaving the waiting callback in place
cancelAnimationFrame_left(a) == a

\* if (animationRef.current) cancelAnimationFrame(animationRef.current)
cancelAnimationFrame(a) ==
    IF a.ref # 0 THEN [a EXCEPT !.callbacks = @ \ {a.ref}] ELSE a

\* animationRef.current = requestAnimationFrame(gameLoop): a new handle.  Handles
\* are only compared with each other, so the new one is the least handle that is
\* neither waiting nor held by animationRef.
requestAnimationFrame(a) ==
    LET used == a.callbacks \cup {a.ref}
        handle == CHOOSE h \in 1..(Cardinality(used) + 1) :
                      /\ h \notin used
                      /\ \A k \in 1..(h - 1) : k \in used
    IN  [a EXCEPT !.ref = handle, !.callbacks = @ \cup {handle}]

\* the game-loop effect run for a new gameLoop: the cleanup of the previous run,
\* then the effect body
runGameLoopEffect(a) == requestAnimationFrame(cancelAnimationFrame(a))

\* the branches of gameLoop that call no setter: the next render has the same
\* gameLoop.  Every other branch hands a new array to a setter.
SetterFreeBranches == {"paused", "noGrid", "fading", "idle"}

\* the component is mounted: the mount effect creates the first grid and the
\* game-loop effect asks for the first frame; the grid setter leaves a render
\* outstanding
mount ==
    /\ ~animation.mounted
    /\ ~animation.unmounted
    /\ initializeSimulation
    /\ animation' = [requestAnimationFrame(animation) EXCEPT !.mounted = TRUE,
                                                             !.rerender = TRUE]

\* the browser calls a waiting callback: gameLoop runs and, unless it returns from
\* a reset block, asks for the next frame itself
frameCallback ==
    /\ ~animation.rerender
    /\ \E handle \in animation.callbacks :
          /\ AnimationFrame
          /\ LET called == [animation EXCEPT !.callbacks = @ \ {handle}]
                 after == IF obs'.rescheduled THEN requestAnimationFrame(called)
                          ELSE called
             IN  animation' =
                     [after EXCEPT !.rerender = animation.mounted
                                                /\ obs'.branch \notin SetterFreeBranches]

\* React commits the outstanding render: gameLoop is new, so the game-loop effect
\* is cleaned up and run again
gameLoopEffect ==
    /\ animation.mounted
    /\ animation.rerender
    /\ animation' = [runGameLoopEffect(animation) EXCEPT !.rerender = FALSE]
    /\ UNCHANGED <<settings, grid, coloredGrid, targetGrid, targetColoredGrid, isFading,
                   lastUpdateRef, stateHistoryRef, stuckCounterRef, fadeStartTimeRef,
                   fibonacciIndexRef, wallpaperPaused, innerWidth, innerHeight, clock,
                   obs>>

\* applyUserProperties on the mounted component: settings is new, so the game-loop
\* effect runs in the commit of the settings, with the grid effects; their setters
\* leave a further render outstanding.  The host sets cell_size, cell_corner_radius
\* and color_mode here.
applyUserPropertiesMounted ==
    /\ animation.mounted
    /\ applyUserProperties
    /\ settings'.cell_padding = settings.cell_padding
    /\ settings'.bottom_margin = settings.bottom_margin
    /\ animation' = [runGameLoopEffect(animation)
                         EXCEPT !.rerender = obs'.branch # "cell_corner_radius"]

\* the component is unmounted: the cleanup of the game-loop effect
unmount ==
    /\ animation.mounted
    /\ animation' = [cancelAnimationFrame(animation) EXCEPT !.mounted = FALSE,
                                                            !.unmounted = TRUE,
                                                            !.rerender = FALSE]
    /\ UNCHANGED <<settings, grid, coloredGrid, targetGrid, targetColoredGrid, isFading,
                   lastUpdateRef, stateHistoryRef, stuckCounterRef, fadeStartTimeRef,
                   fibonacciIndexRef, wallpaperPaused, innerWidth, innerHeight, clock,
                   obs>>

InitLoop ==
    /\ \E mode \in BOOLEAN, fadeAmount \in {0, 1} :
          settings = [PlainSettings EXCEPT !.color_mode = mode,
                                           !.fade_amount = fadeAmount,
                                           !.stable_display_time = 0,
                                           !.max_revival_attempts = 1]
    /\ grid = <<>>
    /\ RestIdle
    /\ obs = ObsNone
    /\ animation = AnimationNone

NextLoop ==
    \/ mount
    \/ frameCallback
    \/ gameLoopEffect
    \/ applyUserPropertiesMounted
    \/ setWallpaperPaused /\ animation.mounted /\ UNCHANGED animation
    \/ unmount

SpecLoop == InitLoop /\ [][NextLoop]_vars

\* C31: from mount to teardown, after every tick (advancing, paused, without a
\* grid, or returning from a reset block without asking for a frame itself) and
\* after every state change that makes a new gameLoop, once the render it caused
\* is committed exactly one tick callback is waiting, the one animationRef holds;
\* at no time do two callbacks wait for the same frame; after teardown none waits.
C31_OneTickPending ==
    /\ Cardinality(animation.callbacks) <= 1
    /\ (animation.mounted /\ ~animation.rerender) =>
           animation.callbacks = {animation.ref}
    /\ (animation.mounted /\ animation.rerender) =>
           /\ animation.callbacks \subseteq {animation.ref}
           /\ animation.callbacks = {} <=>
                  (obs.op = "gameLoop" /\ obs.branch \in ResetBranches)
    /\ animation.unmounted => animation.callbacks = {}

\* a tick that returned from a reset block, and the render it caused committed:
\* one callback waits again
C31_Witness ==
    /\ animation.mounted
    /\ ~animation.rerender
    /\ obs.op = "gameLoop"
    /\ obs.branch \in ResetBranches
    /\ ~obs.rescheduled
    /\ Cardinality(animation.callbacks) = 1

====
